---- MODULE Spec2Model ----
(***************************************************************************)
(* Model of the jules_job_manager transport client (src/mcp_client.py):    *)
(* the lifecycle of the MCP server child process, the JSON-RPC request /   *)
(* response cycle over its pipes, and the use_client session guard.        *)
(***************************************************************************)
EXTENDS Integers, Sequences, FiniteSets, TLC

\* ------------------------------------------------------------------ bounds
MaxLaunch == 2         \* child processes one client launches
MaxPipe == 2           \* unread lines held by one child's output stream
MaxId == 2             \* requests one client builds
NumCtx == 2            \* context objects obtained from use_client per client

\* The client dictionaries created with create_client.
MainClient == "main"
OtherClient == "other"
Clients == {MainClient, OtherClient}
Pids == 1..MaxLaunch
Ctxs == 1..NumCtx
NoProcess == 0         \* client["process"] is None

\* ------------------------------------------------------------- JSON values
\* A JSON value is a tagged record; a JSON object carries a function from
\* its keys to JSON values (a Python dict).
Null == [t |-> "null"]
Num(n) == [t |-> "num", n |-> n]
Str(s) == [t |-> "str", s |-> s]
Bool(b) == [t |-> "bool", b |-> b]
Obj(m) == [t |-> "obj", m |-> m]
IdStr(d) == [t |-> "idstr", d |-> d]
EmptyMap == [k \in {} |-> Null]

IsDict(v) == v.t = "obj"

\* str(n) for a natural number n: its decimal digits, most significant first.
RECURSIVE DecimalDigits(_)
DecimalDigits(n) ==
    IF n < 10 THEN <<n>> ELSE Append(DecimalDigits(n \div 10), n % 10)

\* int(s) of a decimal digit string.
RECURSIVE DecimalValue(_)
DecimalValue(d) ==
    IF d = <<>> THEN 0
    ELSE 10 * DecimalValue(SubSeq(d, 1, Len(d) - 1)) + d[Len(d)]

\* ------------------------------------------------------- outcomes of calls
\* What a call hands back to its caller: a returned value or a raised error.
Returned(v) == [kind |-> "return", value |-> v]
ReturnedBool(b) == [kind |-> "return", ok |-> b]
Raised(type, msg) == [kind |-> "raise", type |-> type, msg |-> msg]

MsgGenericRemote == "MCP server returned an error"
MsgMissingResult == "MCP server response missing result field"
MsgNoResponse == "No response received from MCP server"
MsgInvalidFormat == "Invalid JSON-RPC response format"
MsgLaunchFailed == "Failed to start MCP server"
MsgContextInUse == "Client context already in use"
MsgContextActive == "Client context already active"

\* Variant of InvokeResult that looks at the result field before the error
\* field.
InvokeResultBeforeError(response) ==
    LET result == IF "result" \in DOMAIN response THEN response["result"] ELSE Null
    IN  IF result # Null
        THEN IF IsDict(result)
             THEN Returned([k \in DOMAIN result.m |-> result.m[k]])
             ELSE Returned([k \in {"value"} |-> result])
        ELSE IF "error" \in DOMAIN response
             THEN LET error == response["error"]
                  IN  Raised("RuntimeError",
                             IF IsDict(error) /\ "message" \in DOMAIN error.m
                             THEN error.m["message"].s ELSE MsgGenericRemote)
             ELSE Raised("RuntimeError", MsgMissingResult)

\* invoke_tool, lines 223-240: the mapping from a response object to what
\* invoke returns or raises.
InvokeResult(response) ==
    IF "error" \in DOMAIN response
    THEN LET error == response["error"]
             message == IF IsDict(error) /\ "message" \in DOMAIN error.m
                        THEN error.m["message"].s
                        ELSE MsgGenericRemote
         IN  Raised("RuntimeError", message)
    ELSE LET result == IF "result" \in DOMAIN response
                       THEN response["result"] ELSE Null
         IN  IF result = Null
             THEN Raised("RuntimeError", MsgMissingResult)
             ELSE IF IsDict(result)
                  THEN Returned([k \in DOMAIN result.m |-> result.m[k]])
                  ELSE Returned([k \in {"value"} |-> result])

\* ------------------------------------------------------------------- state
VARIABLES
    process,          \* client["process"]: NoProcess or the pid of a child
    launched,         \* number of children the client has launched so far
    alive,            \* the launched children whose poll() is None
    signals,          \* per child, the signalling calls made on its handle
    os,               \* lines the child wrote that are still in the OS pipe
    buf,              \* lines already pulled into the text reader's buffer
    pending,          \* request ids the child received and has not answered
    hasFd,            \* whether the output stream supports select()
    active_contexts,  \* client["active_contexts"]
    ctx,              \* per context object, its state dict (entered, started)
    inBlock,          \* context objects whose with-block is executing
    gen,              \* client["_request_id_generator"] and its counter
    pc,               \* where the client's thread is: idle, reading, blocked
    request,          \* id of the last request built by invoke
    response,         \* the response object the last completed read returned
    last,             \* the last completed call: operation, environment, outcome
    quiet,            \* the child wrote nothing since the last request was sent
    disk,             \* the backing file, its mtime, its .tmp and .lock siblings
    now,              \* the clock file modification times are taken from
    manager,          \* per storage handle: cache, cache_mtime, cache_serialized
    sres,             \* the last completed storage call and its outcome
    spc,              \* where the stepwise writer is inside save_task
    work              \* the stepwise writer's local variables

clientVars == <<process, launched, alive, signals, os, buf, pending, hasFd,
                active_contexts, ctx, inBlock, gen, pc, request, response, last,
                quiet>>
storeVars == <<disk, now, manager, sres, spc, work>>
vars == <<clientVars, storeVars>>

NoRequest == <<>>
NoResponse == EmptyMap
FreshContext == [entered |-> FALSE, started |-> FALSE]
NoGenerator == [created |-> FALSE, value |-> 0]

Done(op, env, out) == [op |-> op, env |-> env, out |-> out]

\* Python's None and a present value, for fields that are None until set.
None == [none |-> TRUE]
Some(v) == [some |-> v]

\* Storage handles on the one backing file path.
MainHandle == "A"
OtherHandle == "B"
Handles == {MainHandle, OtherHandle}

\* File contents.  A missing file; text that is a JSON object, as its members
\* in the order they are written; and the contents that are not such a text.
\* The other kinds are "empty" (blank text), "garbage" (text that is not
\* JSON), "scalar" (JSON that is not an object), "partial" (part of a text)
\* and "undecodable" (bytes that are not UTF-8 text).
Absent == [kind |-> "absent"]
ObjectText(members) == [kind |-> "object", members |-> members]
File(kind) == [kind |-> kind]

\* No storage handle has been created for the name.
NoHandle == [created |-> FALSE, cache |-> None, cache_mtime |-> None,
             cache_serialized |-> None]
NoStoreCall ==
    [op |-> "none", h |-> MainHandle, id |-> "", filter |-> None,
     task |-> None, old |-> None, err |-> "", rec |-> None, recs |-> <<>>,
     wrote |-> FALSE, reply |-> None, ok |-> FALSE, calls |-> 0,
     locked |-> FALSE, mutated |-> "no"]
NoWork ==
    [h |-> MainHandle, op |-> "none", id |-> "", task |-> None, old |-> None,
     tasks |-> <<>>, text |-> File("empty"), before |-> Absent, at |-> "idle",
     locked |-> FALSE]

\* A directory without a backing file and no storage handle.
StoreUnused ==
    /\ disk = [file |-> Absent, mtime |-> 0, tmp |-> Absent, lock |-> FALSE]
    /\ now = 0
    /\ manager = [h \in Handles |-> NoHandle]
    /\ sres = NoStoreCall
    /\ spc = "idle"
    /\ work = NoWork

\* create_client / _validate_config, lines 37-62: no process, no session.
ClientInit ==
    /\ process = [c \in Clients |-> NoProcess]
    /\ launched = [c \in Clients |-> 0]
    /\ alive = [c \in Clients |-> {}]
    /\ signals = [c \in Clients |-> [p \in Pids |-> <<>>]]
    /\ os = [c \in Clients |-> <<>>]
    /\ buf = [c \in Clients |-> <<>>]
    /\ pending = [c \in Clients |-> <<>>]
    /\ hasFd = [c \in Clients |-> FALSE]
    /\ active_contexts = [c \in Clients |-> 0]
    /\ ctx = [c \in Clients |-> [x \in Ctxs |-> FreshContext]]
    /\ inBlock = [c \in Clients |-> {}]
    /\ gen = [c \in Clients |-> NoGenerator]
    /\ pc = [c \in Clients |-> "idle"]
    /\ request = [c \in Clients |-> NoRequest]
    /\ response = [c \in Clients |-> NoResponse]
    /\ last = [c \in Clients |-> Done("none", "none", ReturnedBool(TRUE))]
    /\ quiet = [c \in Clients |-> TRUE]

Init == ClientInit /\ StoreUnused

\* The pipes belong to the process handle: a new or cleared handle has none
\* of the previous child's output or unanswered requests.
FreshStreams(c) ==
    /\ os' = [os EXCEPT ![c] = <<>>]
    /\ buf' = [buf EXCEPT ![c] = <<>>]
    /\ pending' = [pending EXCEPT ![c] = <<>>]

\* ------------------------------------------------------------ start_client
\* Variant of AlreadyRunning that does not poll the process.
HoldsHandle(c) ==
    process[c] # NoProcess

\* _ensure_not_running, lines 87-92: raises when the handle polls as alive.
AlreadyRunning(c) ==
    process[c] # NoProcess /\ process[c] \in alive[c]

\* Variant of StartClient in which a refused launch leaves the handle as it
\* was.
StartClientKeepingHandle(c, launchOk) ==
    IF AlreadyRunning(c)
    THEN UNCHANGED <<process, launched, alive, os, buf, pending, hasFd>>
    ELSE IF launchOk
         THEN /\ process' = [process EXCEPT ![c] = launched[c] + 1]
              /\ launched' = [launched EXCEPT ![c] = @ + 1]
              /\ alive' = [alive EXCEPT ![c] = @ \cup {launched[c] + 1}]
              /\ \E fd \in BOOLEAN : hasFd' = [hasFd EXCEPT ![c] = fd]
              /\ FreshStreams(c)
         ELSE UNCHANGED <<process, launched, alive, os, buf, pending, hasFd>>

\* start_client, lines 95-108; launchOk is whether popen_launch succeeds.
\* The output stream of a launched child is a pipe with a descriptor, or (a
\* substituted process object) a stream without one.
StartClient(c, launchOk) ==
    IF AlreadyRunning(c)
    THEN UNCHANGED <<process, launched, alive, os, buf, pending, hasFd>>
    ELSE IF launchOk
         THEN /\ process' = [process EXCEPT ![c] = launched[c] + 1]
              /\ launched' = [launched EXCEPT ![c] = @ + 1]
              /\ alive' = [alive EXCEPT ![c] = @ \cup {launched[c] + 1}]
              /\ \E fd \in BOOLEAN : hasFd' = [hasFd EXCEPT ![c] = fd]
              /\ FreshStreams(c)
         ELSE /\ process' = [process EXCEPT ![c] = NoProcess]
              /\ hasFd' = [hasFd EXCEPT ![c] = FALSE]
              /\ UNCHANGED <<launched, alive>>
              /\ FreshStreams(c)

StartOutcome(c, launchOk) ==
    IF AlreadyRunning(c) THEN Raised("RuntimeError", "MCP client already running")
    ELSE IF launchOk THEN ReturnedBool(TRUE)
    ELSE Raised("RuntimeError", MsgLaunchFailed)

\* A launch is attempted only while the client has launches left.
CanStart(c) == AlreadyRunning(c) \/ launched[c] < MaxLaunch

Start(c) ==
    /\ pc[c] = "idle"
    /\ CanStart(c)
    /\ \E launchOk \in BOOLEAN :
          /\ StartClient(c, launchOk)
          /\ last' = [last EXCEPT ![c] =
                 Done("start", IF launchOk THEN "launch_ok" ELSE "launch_fails",
                      StartOutcome(c, launchOk))]
    /\ UNCHANGED storeVars
    /\ UNCHANGED <<signals, active_contexts, ctx, inBlock, gen, pc,
                   request, response, quiet>>

\* ------------------------------------------------------------- stop_client
\* What can happen to a stop: the terminate call raises, the child exits
\* within the wait, or the wait times out.  A child that already exited is
\* reaped by the wait at once.
StopWays(c) ==
    IF process[c] = NoProcess THEN {"no_process"}
    ELSE IF process[c] \in alive[c]
         THEN {"terminate_fails", "exited", "wait_timeout"}
         ELSE {"exited"}

\* Variant of StopClient that kills a child that outlives the wait.
StopClientEscalating(c, how) ==
    IF process[c] = NoProcess
    THEN UNCHANGED <<process, alive, signals, os, buf, pending, hasFd>>
    ELSE /\ signals' = [signals EXCEPT ![c][process[c]] =
                IF how = "wait_timeout" THEN @ \o <<"terminate", "kill">>
                ELSE Append(@, "terminate")]
         /\ alive' = [alive EXCEPT ![c] =
                IF how \in {"exited", "wait_timeout"} THEN @ \ {process[c]} ELSE @]
         /\ process' = [process EXCEPT ![c] = NoProcess]
         /\ hasFd' = [hasFd EXCEPT ![c] = FALSE]
         /\ FreshStreams(c)

\* stop_client, lines 120-141.
StopClient(c, how) ==
    IF process[c] = NoProcess
    THEN UNCHANGED <<process, alive, signals, os, buf, pending, hasFd>>
    ELSE /\ signals' = [signals EXCEPT ![c][process[c]] = Append(@, "terminate")]
         /\ alive' = [alive EXCEPT ![c] =
                         IF how = "exited" THEN @ \ {process[c]} ELSE @]
         /\ process' = [process EXCEPT ![c] = NoProcess]
         /\ hasFd' = [hasFd EXCEPT ![c] = FALSE]
         /\ FreshStreams(c)

\* Variant of StopOutcome that reports success without a process too.
StopOutcomeAlwaysTrue(c, how) ==
    ReturnedBool(TRUE)

\* stop_client, lines 125, 133, 139, 141: the value stop returns.
StopOutcome(c, how) ==
    IF process[c] = NoProcess THEN ReturnedBool(FALSE) ELSE ReturnedBool(TRUE)

\* Variant of Stop that forgets the handle without signalling the child.
StopForgetting(c) ==
    /\ pc[c] = "idle"
    /\ process[c] # NoProcess
    /\ process' = [process EXCEPT ![c] = NoProcess]
    /\ hasFd' = [hasFd EXCEPT ![c] = FALSE]
    /\ FreshStreams(c)
    /\ last' = [last EXCEPT ![c] = Done("stop", "exited", ReturnedBool(TRUE))]
    /\ UNCHANGED storeVars
    /\ UNCHANGED <<alive, signals, launched, active_contexts, ctx, inBlock,
                   gen, pc, request, response, quiet>>

\* stop_client called on client c, lines 120-141.
Stop(c) ==
    /\ pc[c] = "idle"
    /\ \E how \in StopWays(c) :
          /\ StopClient(c, how)
          /\ last' = [last EXCEPT ![c] = Done("stop", how, StopOutcome(c, how))]
    /\ UNCHANGED storeVars
    /\ UNCHANGED <<launched, active_contexts, ctx, inBlock, gen, pc,
                   request, response, quiet>>

\* A child that is still running exits on its own (or a signalled child
\* that outlived the wait finally exits).
ChildExit(c) ==
    /\ \E p \in alive[c] : alive' = [alive EXCEPT ![c] = @ \ {p}]
    /\ UNCHANGED storeVars
    /\ UNCHANGED <<process, launched, signals, os, buf, pending, hasFd,
                   active_contexts, ctx, inBlock, gen, pc, request, response,
                   last, quiet>>

\* -------------------------------------------------------------- use_client
\* use_client, lines 263-265: a new context object replaces one that is not
\* executing a with-block.
NewContext(c, x) ==
    /\ pc[c] = "idle"
    /\ x \notin inBlock[c]
    /\ ctx[c][x] # FreshContext
    /\ ctx' = [ctx EXCEPT ![c][x] = FreshContext]
    /\ UNCHANGED storeVars
    /\ UNCHANGED <<process, launched, alive, signals, os, buf, pending, hasFd,
                   active_contexts, inBlock, gen, pc, request, response, last,
                   quiet>>

\* Variant of EnterRejection that only looks at the context object itself.
EnterRejectionOwnStateOnly(c, x) ==
    IF ctx[c][x].entered THEN MsgContextInUse ELSE "none"

\* __enter__, lines 268-272: the two re-entry checks.
EnterRejection(c, x) ==
    IF ctx[c][x].entered THEN MsgContextInUse
    ELSE IF active_contexts[c] > 0 THEN MsgContextActive
    ELSE "none"

\* __enter__, lines 267-277.
Enter(c, x) ==
    /\ pc[c] = "idle"
    /\ IF EnterRejection(c, x) # "none"
       THEN /\ last' = [last EXCEPT ![c] =
                   Done("enter", "rejected",
                        Raised("RuntimeError", EnterRejection(c, x)))]
            /\ UNCHANGED <<process, launched, alive, os, buf, pending, hasFd,
                           active_contexts, ctx, inBlock>>
       ELSE /\ CanStart(c)
            /\ active_contexts' =
                   [active_contexts EXCEPT ![c] = active_contexts[c] + 1]
            /\ \E launchOk \in BOOLEAN :
                  /\ StartClient(c, launchOk)
                  /\ IF StartOutcome(c, launchOk).kind = "raise"
                     THEN /\ ctx' = [ctx EXCEPT ![c][x].entered = TRUE]
                          /\ UNCHANGED inBlock
                          /\ last' = [last EXCEPT ![c] =
                                 Done("enter", "start_fails",
                                      StartOutcome(c, launchOk))]
                     ELSE /\ ctx' = [ctx EXCEPT ![c][x] =
                                 [entered |-> TRUE, started |-> TRUE]]
                          /\ inBlock' = [inBlock EXCEPT ![c] = @ \cup {x}]
                          /\ last' = [last EXCEPT ![c] =
                                 Done("enter", "entered", [kind |-> "return"])]
    /\ UNCHANGED storeVars
    /\ UNCHANGED <<signals, gen, pc, request, response, quiet>>

\* Variant of ExitSuppresses: __exit__ returning a true value.
ExitSwallows == TRUE

\* __exit__, line 285: the value that tells the with statement whether to
\* swallow the error raised in the block.
ExitSuppresses == FALSE

\* What the with statement hands on once __exit__ has run.
WithOutcome(blockRaised) ==
    IF blockRaised /\ ~ExitSuppresses
    THEN Raised("BlockError", "raised in block")
    ELSE [kind |-> "return"]

\* __exit__, lines 279-285, run when the with-block of x ends.
Exit(c, x) ==
    /\ pc[c] = "idle"
    /\ x \in inBlock[c]
    /\ IF ctx[c][x].started
       THEN \E how \in StopWays(c) : StopClient(c, how)
       ELSE UNCHANGED <<process, alive, signals, os, buf, pending, hasFd>>
    /\ ctx' = [ctx EXCEPT ![c][x] = [entered |-> FALSE, started |-> FALSE]]
    /\ active_contexts' = [active_contexts EXCEPT ![c] = 0]
    /\ inBlock' = [inBlock EXCEPT ![c] = @ \ {x}]
    /\ \E blockRaised \in BOOLEAN :
          last' = [last EXCEPT ![c] =
              Done("exit", IF blockRaised THEN "block_raised" ELSE "block_ended",
                   WithOutcome(blockRaised))]
    /\ UNCHANGED storeVars
    /\ UNCHANGED <<launched, gen, pc, request, response, quiet>>

\* ------------------------------------------------------------ the child
JsonLine(v) == [k |-> "json", v |-> v]

Unread(c) == Len(buf[c]) + Len(os[c])

ChildRunning(c) == process[c] # NoProcess /\ process[c] \in alive[c]

\* The child answers the oldest request it has not answered yet, with a
\* result object or an error object besides the id of the request.
ChildReply(c) ==
    /\ ChildRunning(c)
    /\ pending[c] # <<>>
    /\ Unread(c) < MaxPipe
    /\ \E body \in {"result" :> Obj("ok" :> Bool(TRUE)),
                      "error" :> Obj("message" :> Str("X"))} :
          os' = [os EXCEPT ![c] =
                    Append(@, JsonLine(Obj(("id" :> IdStr(Head(pending[c])))
                                           @@ body)))]
    /\ pending' = [pending EXCEPT ![c] = Tail(@)]
    /\ quiet' = [quiet EXCEPT ![c] = FALSE]
    /\ UNCHANGED storeVars
    /\ UNCHANGED <<process, launched, alive, signals, buf, hasFd,
                   active_contexts, ctx, inBlock, gen, pc, request, response,
                   last>>

\* The child writes a line that is no response: blank, not JSON, or a JSON
\* value that is not an object.
ChildNoise(c) ==
    /\ ChildRunning(c)
    /\ Unread(c) < MaxPipe
    /\ \E line \in {[k |-> "blank"], [k |-> "garbage"], JsonLine(Num(5))} :
          os' = [os EXCEPT ![c] = Append(@, line)]
    /\ quiet' = [quiet EXCEPT ![c] = FALSE]
    /\ UNCHANGED storeVars
    /\ UNCHANGED <<process, launched, alive, signals, buf, pending, hasFd,
                   active_contexts, ctx, inBlock, gen, pc, request, response,
                   last>>

\* ------------------------------------------------------------- invoke_tool
\* Variant of GetOrCreateGenerator that never keeps the generator.
AlwaysCreateGenerator(g) ==
    [created |-> TRUE, value |-> 0]

\* _get_or_create_request_id_generator, lines 209-214: the generator kept in
\* the client, created with its counter at 0 on first use.
GetOrCreateGenerator(g) ==
    IF g.created THEN g ELSE [created |-> TRUE, value |-> 0]

\* create_request_id_generator._next_id, lines 148-150: the generator after
\* the increment and the id it returns.
NextGenerator(g) == [g EXCEPT !.value = @ + 1]
NextId(g) == DecimalDigits(NextGenerator(g).value)

\* Variant of SendWays that writes to the stream without looking at the
\* process handle.
SendWaysIgnoringHandle(c) ==
    IF process[c] \in alive[c] THEN {"written"} ELSE {"broken_pipe", "lost"}

\* What the write to the child's input stream does: a running child gets the
\* request; the pipe of an exited child is broken, or swallows the bytes.
SendWays(c) ==
    IF process[c] = NoProcess THEN {"not_running"}
    ELSE IF process[c] \in alive[c] THEN {"written"}
    ELSE {"broken_pipe", "lost"}

\* invoke_tool lines 219-221: take the next id, build and send the request.
InvokeSend(c) ==
    /\ pc[c] = "idle"
    /\ gen[c].value < MaxId
    /\ gen' = [gen EXCEPT ![c] = NextGenerator(GetOrCreateGenerator(@))]
    /\ request' = [request EXCEPT ![c] = NextId(GetOrCreateGenerator(gen[c]))]
    /\ response' = [response EXCEPT ![c] = NoResponse]
    /\ quiet' = [quiet EXCEPT ![c] = TRUE]
    /\ \E how \in SendWays(c) :
          CASE how = "not_running" ->
                 /\ last' = [last EXCEPT ![c] =
                        Done("invoke", how,
                             Raised("RuntimeError",
                                    "MCP client process is not running"))]
                 /\ UNCHANGED <<pc, pending>>
            [] how = "broken_pipe" ->
                 /\ last' = [last EXCEPT ![c] =
                        Done("invoke", how, Raised("BrokenPipeError", "EPIPE"))]
                 /\ UNCHANGED <<pc, pending>>
            [] how = "lost" ->
                 /\ pc' = [pc EXCEPT ![c] = "reading"]
                 /\ UNCHANGED <<last, pending>>
            [] how = "written" ->
                 /\ pc' = [pc EXCEPT ![c] = "reading"]
                 /\ pending' = [pending EXCEPT ![c] =
                        Append(@, NextId(GetOrCreateGenerator(gen[c])))]
                 /\ UNCHANGED last
    /\ UNCHANGED storeVars
    /\ UNCHANGED <<process, launched, alive, signals, os, buf, hasFd,
                   active_contexts, ctx, inBlock>>

\* _readline_with_timeout, lines 247-257: whether the call fails with a
\* timeout.  select() on the descriptor reports nothing readable when the
\* pipe holds no data and is not at end-of-stream, and line 255 then raises
\* TimeoutError inside the try block; the except clause of line 256 swallows
\* OSError and ValueError, and TimeoutError is a subclass of OSError.
ReadTimesOut(c) ==
    /\ hasFd[c] /\ os[c] = <<>> /\ process[c] \in alive[c]
    /\ "TimeoutError" \notin {"OSError", "TimeoutError", "ValueError"}

\* Variant of ReadLine that keeps waiting at end-of-stream.
ReadLineWaitsAtEof(c) ==
    IF buf[c] # <<>> THEN [line |-> Head(buf[c]), buf |-> Tail(buf[c]), os |-> os[c]]
    ELSE IF os[c] # <<>> THEN [line |-> Head(os[c]), buf |-> Tail(os[c]), os |-> <<>>]
    ELSE [line |-> [k |-> "wait"], buf |-> <<>>, os |-> <<>>]

\* stream.readline(): the next line, taken from the reader's buffer, which
\* is refilled with everything the pipe holds; "eof" at end-of-stream and
\* "wait" when the read has to wait for the child.
ReadLine(c) ==
    IF buf[c] # <<>> THEN [line |-> Head(buf[c]), buf |-> Tail(buf[c]), os |-> os[c]]
    ELSE IF os[c] # <<>> THEN [line |-> Head(os[c]), buf |-> Tail(os[c]), os |-> <<>>]
    ELSE IF process[c] \in alive[c] THEN [line |-> [k |-> "wait"], buf |-> <<>>, os |-> <<>>]
    ELSE [line |-> [k |-> "eof"], buf |-> <<>>, os |-> <<>>]

\* read_json_rpc_response lines 191-206: what one line read does to the call.
LineOutcome(line) ==
    CASE line.k = "eof" -> Raised("RuntimeError", MsgNoResponse)
      [] line.k = "garbage" -> Raised("RuntimeError", MsgInvalidFormat)
      [] line.k = "json" /\ ~IsDict(line.v) -> Raised("RuntimeError", MsgInvalidFormat)
      [] line.k = "json" /\ IsDict(line.v) -> InvokeResult(line.v.m)
      [] OTHER -> [kind |-> "continue"]

\* One turn of the loop of read_json_rpc_response (lines 189-206) followed,
\* when it returns a response, by invoke_tool lines 223-240.
ReadStep(c) ==
    /\ pc[c] \in {"reading", "blocked"}
    /\ IF ReadTimesOut(c)
       THEN /\ pc[c] = "reading"
            /\ pc' = [pc EXCEPT ![c] = "idle"]
            /\ last' = [last EXCEPT ![c] =
                   Done("invoke", "timeout", Raised("TimeoutError", ""))]
            /\ UNCHANGED <<os, buf, response>>
       ELSE LET r == ReadLine(c)
                out == LineOutcome(r.line)
            IN  /\ os' = [os EXCEPT ![c] = r.os]
                /\ buf' = [buf EXCEPT ![c] = r.buf]
                /\ CASE r.line.k = "wait" ->
                          /\ pc[c] = "reading"
                          /\ pc' = [pc EXCEPT ![c] = "blocked"]
                          /\ UNCHANGED <<last, response>>
                     [] r.line.k = "blank" ->
                          /\ pc' = [pc EXCEPT ![c] = "reading"]
                          /\ UNCHANGED <<last, response>>
                     [] OTHER ->
                          /\ pc' = [pc EXCEPT ![c] = "idle"]
                          /\ response' = [response EXCEPT ![c] =
                                 IF r.line.k = "json" /\ IsDict(r.line.v)
                                 THEN r.line.v.m ELSE NoResponse]
                          /\ last' = [last EXCEPT ![c] =
                                 Done("invoke", r.line.k, out)]
    /\ UNCHANGED storeVars
    /\ UNCHANGED <<process, launched, alive, signals, pending, hasFd,
                   active_contexts, ctx, inBlock, gen, request, quiet>>

\* ----------------------------------------------------------- specification
ClientNext(c) ==
    \/ Start(c)
    \/ Stop(c)
    \/ ChildExit(c)
    \/ \E x \in Ctxs : NewContext(c, x)
    \/ \E x \in Ctxs : Enter(c, x)
    \/ \E x \in Ctxs : Exit(c, x)
    \/ ChildReply(c)
    \/ ChildNoise(c)
    \/ InvokeSend(c)
    \/ ReadStep(c)

Next == ClientNext(MainClient)

Spec == Init /\ [][Next]_vars

\* Two clients side by side, without sessions: one that is started and
\* stopped and whose child answers, and one that is never started.
NextTwo ==
    \/ Start(MainClient)
    \/ Stop(MainClient)
    \/ ChildExit(MainClient)
    \/ ChildReply(MainClient)
    \/ ReadStep(MainClient)
    \/ \E c \in Clients : InvokeSend(c)

SpecTwo == Init /\ [][NextTwo]_vars

\* The response objects invoke_tool is applied to.
AllResponses ==
    {i @@ e @@ r :
        i \in {EmptyMap, "id" :> IdStr(<<1>>)},
        e \in {EmptyMap, "error" :> Null, "error" :> Str("boom"),
               "error" :> Obj(EmptyMap),
               "error" :> Obj("message" :> Str("X")),
               "error" :> Obj("message" :> Str("")),
               "error" :> Obj(("message" :> Str("X")) @@ ("code" :> Num(5)))},
        r \in {EmptyMap, "result" :> Null, "result" :> Num(5),
               "result" :> Num(0), "result" :> Bool(FALSE), "result" :> Str(""),
               "result" :> Obj(EmptyMap), "result" :> Obj("ok" :> Bool(TRUE)),
               "result" :> Obj("value" :> Num(5)),
               "result" :> Obj(("ok" :> Bool(TRUE)) @@ ("n" :> Num(0)))}}

\* A started client that has sent its first request, whose child has written
\* one response object.
InitMap ==
    /\ process = [c \in Clients |-> IF c = MainClient THEN 1 ELSE NoProcess]
    /\ launched = [c \in Clients |-> IF c = MainClient THEN 1 ELSE 0]
    /\ alive = [c \in Clients |-> IF c = MainClient THEN {1} ELSE {}]
    /\ signals = [c \in Clients |-> [p \in Pids |-> <<>>]]
    /\ \E r \in AllResponses :
          os = [c \in Clients |->
                   IF c = MainClient THEN <<JsonLine(Obj(r))>> ELSE <<>>]
    /\ buf = [c \in Clients |-> <<>>]
    /\ pending = [c \in Clients |-> <<>>]
    /\ \E fd \in BOOLEAN :
          hasFd = [c \in Clients |-> c = MainClient /\ fd]
    /\ active_contexts = [c \in Clients |-> 0]
    /\ ctx = [c \in Clients |-> [x \in Ctxs |-> FreshContext]]
    /\ inBlock = [c \in Clients |-> {}]
    /\ gen = [c \in Clients |->
                 IF c = MainClient THEN [created |-> TRUE, value |-> 1]
                 ELSE NoGenerator]
    /\ pc = [c \in Clients |-> IF c = MainClient THEN "reading" ELSE "idle"]
    /\ request = [c \in Clients |-> IF c = MainClient THEN <<1>> ELSE NoRequest]
    /\ response = [c \in Clients |-> NoResponse]
    /\ last = [c \in Clients |->
                  IF c = MainClient
                  THEN Done("start", "launch_ok", ReturnedBool(TRUE))
                  ELSE Done("none", "none", ReturnedBool(TRUE))]
    /\ quiet = [c \in Clients |-> c # MainClient]
    /\ StoreUnused

SpecMap == InitMap /\ [][ReadStep(MainClient)]_vars

TypeOK ==
    /\ process \in [Clients -> {NoProcess} \cup Pids]
    /\ \A c \in Clients : alive[c] \subseteq 1..launched[c]
    /\ \A c \in Clients : Unread(c) <= MaxPipe
    /\ pc \in [Clients -> {"idle", "reading", "blocked"}]

\* ------------------------------------------------------------------ claims
\* The completed call of client c was the given operation.
Completed(c, op) == last'[c] # last[c] /\ last'[c].op = op

\* C1: whenever invoke returns a result or a remote error, the response it
\* took is the one the child produced for the request this call wrote.
C1_ResponseAnswersRequest ==
    \A c \in Clients :
        (pc[c] = "idle" /\ last[c].op = "invoke" /\ response[c] # NoResponse)
            => response[c]["id"] = IdStr(request[c])

\* C2: with a descriptor, when the pipe holds no unread data and is not at
\* end-of-stream and the child stays silent until the timeout has elapsed,
\* invoke fails with a timeout error and does not go on blocking on the read.
C2_TimeoutBoundedRead ==
    [][\A c \in Clients :
          (/\ pc[c] = "reading" /\ hasFd[c]
           /\ os[c] = <<>> /\ process[c] \in alive[c]
           /\ os'[c] = os[c] /\ alive'[c] = alive[c]
           /\ pc'[c] # pc[c])
              => /\ pc'[c] = "idle"
                 /\ last'[c] = Done("invoke", "timeout", Raised("TimeoutError", ""))
                 /\ buf'[c] = buf[c]]_vars

\* C3: the result mapping of invoke.  A response with an error field raises
\* a runtime error carrying the error's message (the generic text without
\* one), whatever the result field; a result object is returned with the
\* same keys and values; any other non-null result v is returned as
\* {"value": v}.
C3_ResultMapping ==
    \A c \in Clients :
        (pc[c] = "idle" /\ last[c].op = "invoke" /\ last[c].env = "json")
            => LET r == response[c]
                   out == last[c].out
               IN  /\ "error" \in DOMAIN r =>
                         /\ out.kind = "raise"
                         /\ out.type = "RuntimeError"
                         /\ out.msg =
                               IF r["error"].t = "obj"
                                  /\ "message" \in DOMAIN r["error"].m
                               THEN r["error"].m["message"].s
                               ELSE MsgGenericRemote
                   /\ ("error" \notin DOMAIN r /\ "result" \in DOMAIN r
                       /\ r["result"].t = "obj") =>
                         /\ out.kind = "return"
                         /\ DOMAIN out.value = DOMAIN r["result"].m
                         /\ \A k \in DOMAIN out.value :
                               out.value[k] = r["result"].m[k]
                   /\ ("error" \notin DOMAIN r /\ "result" \in DOMAIN r
                       /\ r["result"].t \notin {"obj", "null"}) =>
                         /\ out.kind = "return"
                         /\ DOMAIN out.value = {"value"}
                         /\ out.value["value"] = r["result"]

C3_ErrorBeatsResult ==
    /\ pc[MainClient] = "idle" /\ last[MainClient].op = "invoke"
    /\ "error" \in DOMAIN response[MainClient]
    /\ "result" \in DOMAIN response[MainClient]
    /\ response[MainClient]["result"].t = "obj"
    /\ last[MainClient].out = Raised("RuntimeError", "X")

\* The child of the handle has exited and its output is at end-of-stream.
ExitedAtEof(c) ==
    /\ process[c] # NoProcess /\ process[c] \notin alive[c]
    /\ os[c] = <<>> /\ buf[c] = <<>>

\* C4: on a started client whose child has exited, with the output stream at
\* end-of-stream, invoke ends with a transport error: the write fails, or
\* the read returns at once with the no-response error; the call is never
\* left waiting.
C4_ExitedChildEndsInvoke ==
    /\ [](\A c \in Clients :
            (ExitedAtEof(c) /\ pc[c] # "idle") => ENABLED ReadStep(c))
    /\ [][\A c \in Clients :
            ExitedAtEof(c) =>
                /\ (pc[c] = "idle" /\ gen'[c] # gen[c]) =>
                      \/ pc'[c] = "reading"
                      \/ /\ pc'[c] = "idle"
                         /\ last'[c] = Done("invoke", "broken_pipe",
                                            Raised("BrokenPipeError", "EPIPE"))
                /\ (pc[c] # "idle" /\ pc'[c] # pc[c]) =>
                      /\ pc'[c] = "idle"
                      /\ last'[c] = Done("invoke", "eof",
                                         Raised("RuntimeError", MsgNoResponse))]_vars

C4_NoResponseFromExitedChild ==
    \E c \in Clients :
        /\ ExitedAtEof(c) /\ pc[c] = "idle" /\ quiet[c]
        /\ last[c] = Done("invoke", "eof", Raised("RuntimeError", MsgNoResponse))

\* C5: while a session is open, every attempt to enter a session on the same
\* client, through any context object, is rejected with an error and changes
\* nothing, so one session at most is open and its child keeps running.
C5_SessionExclusive ==
    /\ [](\A c \in Clients : Cardinality(inBlock[c]) <= 1)
    /\ [][\A c \in Clients :
            (inBlock[c] # {} /\ Completed(c, "enter")) =>
                /\ last'[c].env = "rejected"
                /\ last'[c].out.kind = "raise"
                /\ UNCHANGED <<process, launched, alive, signals, os, buf,
                               pending, hasFd, active_contexts, ctx, inBlock,
                               gen, pc, request, response, quiet>>]_vars

C5_RejectedWhileOpen ==
    \E c \in Clients :
        /\ inBlock[c] # {} /\ ChildRunning(c)
        /\ last[c] = Done("enter", "rejected",
                          Raised("RuntimeError", MsgContextActive))

\* The with-block of a session of client c ends in this step.
SessionEnds(c) == inBlock'[c] # inBlock[c] /\ inBlock'[c] \subseteq inBlock[c]

\* What C6 and its amendment share: after the exit the handle is cleared,
\* no session is counted, an error raised in the block propagates, and
\* entering a session is not rejected, neither through the same context
\* object nor through a new one.
ExitReleases(c) ==
    /\ process'[c] = NoProcess
    /\ active_contexts'[c] = 0
    /\ (last'[c].env = "block_raised") <=> (last'[c].out.kind = "raise")
    /\ \A x \in inBlock[c] \ inBlock'[c] :
          /\ ctx'[c][x] = FreshContext
          /\ EnterRejection(c, x)' = "none"

\* C6 as stated: when the block of a session ends, its child process has
\* stopped running, and the session is released.
C6_ExitStopsChild ==
    [][\A c \in Clients :
          SessionEnds(c) =>
              /\ ExitReleases(c)
              /\ process[c] # NoProcess => process[c] \notin alive'[c]]_vars

\* C6, amended: when the block of a session ends, normally or by raising,
\* stop is called on the client's child: one terminate call is made on it
\* (the child can outlive it when signalling fails or the wait times out),
\* and the session is released.
C6_ExitReleasesSession ==
    [][\A c \in Clients :
          SessionEnds(c) =>
              /\ ExitReleases(c)
              /\ process[c] # NoProcess =>
                    signals'[c][process[c]] =
                        Append(signals[c][process[c]], "terminate")]_vars

C6_ReleasedAfterError ==
    \E c \in Clients :
        /\ last[c] = Done("exit", "block_raised",
                          Raised("BlockError", "raised in block"))
        /\ inBlock[c] = {} /\ process[c] = NoProcess /\ active_contexts[c] = 0
        /\ signals[c][1] = <<"terminate">>

\* The client holds a handle of a process that is still running.
HandleAlive(c) == process[c] \in alive[c]

\* C7 as stated: start fails exactly when the handle reports alive, leaving
\* the handle unchanged; otherwise it launches one process and stores its
\* handle.
C7_StartFailsOnlyWhenRunning ==
    [][\A c \in Clients :
          Completed(c, "start") =>
              /\ (last'[c].out.kind = "raise") <=> HandleAlive(c)
              /\ HandleAlive(c) =>
                    process'[c] = process[c] /\ launched'[c] = launched[c]
              /\ ~HandleAlive(c) =>
                    /\ launched'[c] = launched[c] + 1
                    /\ process'[c] = launched'[c]
                    /\ process'[c] \in alive'[c]]_vars

\* C7, amended: start fails with the already-running error exactly when the
\* handle reports alive, leaving the handle unchanged and launching nothing;
\* in every other state it attempts one launch: when the launch succeeds it
\* stores the new handle, and when the operating system refuses the launch
\* it fails with the launch error and leaves no handle.
C7_StartOutcomes ==
    [][\A c \in Clients :
          Completed(c, "start") =>
              /\ (last'[c].out = Raised("RuntimeError", "MCP client already running"))
                    <=> HandleAlive(c)
              /\ HandleAlive(c) =>
                    /\ process'[c] = process[c] /\ launched'[c] = launched[c]
                    /\ alive'[c] = alive[c]
              /\ (~HandleAlive(c) /\ last'[c].env = "launch_ok") =>
                    /\ last'[c].out = ReturnedBool(TRUE)
                    /\ launched'[c] = launched[c] + 1
                    /\ process'[c] = launched'[c]
                    /\ alive'[c] = alive[c] \cup {process'[c]}
              /\ (~HandleAlive(c) /\ last'[c].env = "launch_fails") =>
                    /\ last'[c].out = Raised("RuntimeError", MsgLaunchFailed)
                    /\ launched'[c] = launched[c]
                    /\ process'[c] = NoProcess
                    /\ alive'[c] = alive[c]]_vars

C7_RestartedAfterChildExit ==
    \E c \in Clients :
        /\ last[c] = Done("start", "launch_ok", ReturnedBool(TRUE))
        /\ process[c] = 2 /\ alive[c] = {2} /\ signals[c][1] = <<>>

\* C8: stop without a process handle sends no signal, changes nothing and
\* returns false; stop with a handle makes one terminate call, returns true
\* and clears the handle, so that the next stop is the no-op case.
C8_StopIdempotent ==
    [][\A c \in Clients :
          Completed(c, "stop") =>
              IF process[c] = NoProcess
              THEN /\ last'[c].out = ReturnedBool(FALSE)
                   /\ UNCHANGED <<process, launched, alive, signals, os, buf,
                                  pending, hasFd, active_contexts, ctx,
                                  inBlock, gen, pc, request, response, quiet>>
              ELSE /\ last'[c].out = ReturnedBool(TRUE)
                   /\ signals'[c][process[c]] =
                         Append(signals[c][process[c]], "terminate")
                   /\ \A p \in Pids \ {process[c]} :
                         signals'[c][p] = signals[c][p]
                   /\ process'[c] = NoProcess]_vars

C8_SecondStopIsNoOp ==
    \E c \in Clients :
        /\ last[c] = Done("stop", "no_process", ReturnedBool(FALSE))
        /\ signals[c][1] = <<"terminate">> /\ launched[c] = 1

\* C9: when the terminate call fails or the wait for exit times out, stop
\* still returns true, clears the handle, raises nothing and sends no kill.
C9_LenientStop ==
    [][\A c \in Clients :
          (Completed(c, "stop")
           /\ last'[c].env \in {"terminate_fails", "wait_timeout"}) =>
              /\ last'[c].out = ReturnedBool(TRUE)
              /\ process'[c] = NoProcess
              /\ \A p \in Pids : \A i \in 1..Len(signals'[c][p]) :
                    signals'[c][p][i] # "kill"
              /\ alive'[c] = alive[c]]_vars

C9_StoppedWhileChildLives ==
    \E c \in Clients :
        /\ last[c] = Done("stop", "wait_timeout", ReturnedBool(TRUE))
        /\ process[c] = NoProcess /\ 1 \in alive[c]
        /\ signals[c][1] = <<"terminate">>

\* C10: the first request a client builds carries the id "1", every later
\* one the decimal string of a strictly larger integer, across stop/start
\* cycles and failed invocations, and building a request of one client
\* leaves the ids of the other client alone.
C10_RequestIds ==
    [][\A c \in Clients :
          (gen'[c] # gen[c] \/ (pc[c] = "idle" /\ pc'[c] = "reading")) =>
              /\ IF request[c] = NoRequest
                 THEN request'[c] = <<1>>
                 ELSE /\ DecimalValue(request'[c]) > DecimalValue(request[c])
                      /\ request'[c] = DecimalDigits(DecimalValue(request'[c]))
              /\ \A d \in Clients \ {c} :
                    gen'[d] = gen[d] /\ request'[d] = request[d]]_vars

C10_IdsCountedPerClient ==
    /\ request[MainClient] = <<2>> /\ request[OtherClient] = <<1>>
    /\ launched[MainClient] = 2
    /\ last[MainClient].op = "invoke" /\ last[OtherClient].op = "invoke"

\* ==================================================================== store
\* storage.py: a JSON file of task records keyed by task id, reached through
\* handles that each keep a cache of the last content they loaded or wrote.

MaxTime == 2

\* A Python dict is its entries in insertion order, with distinct keys.
Keys(d) == {d[i].k : i \in DOMAIN d}
Lookup(d, k) == d[CHOOSE i \in DOMAIN d : d[i].k = k].v
\* d[k] = v: a key already present keeps its position.
PutAppending(d, k, v) == Append(d, [k |-> k, v |-> v])
Put(d, k, v) ==
    IF (k \in Keys(d))
    THEN [i \in DOMAIN d |-> IF d[i].k = k THEN [k |-> k, v |-> v] ELSE d[i]]
    ELSE Append(d, [k |-> k, v |-> v])
\* del d[k]
Del(d, k) == SelectSeq(d, LAMBDA e : e.k # k)
\* dict.get(field, default) on a record
GetField(r, field, default) == IF field \in DOMAIN r THEN r[field] ELSE default

\* The keys that occur, listed in the order of Python's string comparison.
KeyIndex(k) ==
    LET order == <<"None", "junk", "t1", "t2", "t3">>
    IN  CHOOSE i \in DOMAIN order : order[i] = k
TaskIds == {"t1", "t2", "t3"}

\* Timestamps are strings of digits; Python compares strings character by
\* character, a proper prefix being the smaller.
RECURSIVE StrLess(_, _)
StrLess(a, b) ==
    IF b = <<>> THEN FALSE
    ELSE IF a = <<>> THEN TRUE
    ELSE IF Head(a) # Head(b) THEN Head(a) < Head(b)
    ELSE StrLess(Tail(a), Tail(b))

\* A value of the backing object that is not itself an object.
NonObject == [scalar |-> 5]
IsObject(v) == "scalar" \notin DOMAIN v

\* _load_raw_data, lines 18-32: a missing file, blank text, text that is not
\* JSON and JSON that is not an object all load as the empty dict; of an
\* object only the members whose value is an object are kept.  The file is
\* read as UTF-8 text in strict mode and only JSONDecodeError is caught, so
\* bytes that do not decode raise UnicodeDecodeError.
LoadRawDataKeepingAll(content) ==
    IF content.kind = "undecodable" THEN Raised("UnicodeDecodeError", "")
    ELSE IF content.kind = "object"
    THEN Returned(content.members)
    ELSE Returned(<<>>)
LoadRawData(content) ==
    IF content.kind = "undecodable" THEN Raised("UnicodeDecodeError", "")
    ELSE IF content.kind = "object"
    THEN Returned(SelectSeq(content.members, LAMBDA e : IsObject(e.v)))
    ELSE Returned(<<>>)

\* sorted() as used by json.dumps(sort_keys=True): entries by ascending key.
RECURSIVE InsertByKey(_, _)
InsertByKey(sorted, e) ==
    IF sorted = <<>> THEN <<e>>
    ELSE IF KeyIndex(e.k) < KeyIndex(Head(sorted).k) THEN <<e>> \o sorted
    ELSE <<Head(sorted)>> \o InsertByKey(Tail(sorted), e)
RECURSIVE SortByKey(_)
SortByKey(d) ==
    IF d = <<>> THEN <<>>
    ELSE InsertByKey(SortByKey(SubSeq(d, 1, Len(d) - 1)), d[Len(d)])

\* _serialize_data, lines 35-37
SerializeData(data) == ObjectText(SortByKey(data))

\* _save_raw_data, lines 40-46, in its three effects on the disk: open() of
\* the .tmp sibling for writing leaves it created or truncated, with part of
\* the text at most until the write is through; write() and the close put
\* the whole text there; os.replace() renames it over the backing file,
\* which then carries the time of the write.
OpenTempInPlace(d) == [d EXCEPT !.file = File("partial")]
OpenTemp(d) == [d EXCEPT !.tmp = File("partial")]
WriteTemp(d, text) == [d EXCEPT !.tmp = text]
Replace(d, t) == [d EXCEPT !.file = d.tmp, !.mtime = t, !.tmp = Absent]
SaveRawData(d, text, t) == Replace(WriteTemp(OpenTemp(d), text), t)

\* _acquire_lock, lines 81-86, and _release_lock, lines 89-94: the lock file
\* is created when missing and removed when present; neither waits.
AcquireLock(d) == [d EXCEPT !.lock = TRUE]
ReleaseLockLeaving(d) == d
ReleaseLock(d) == [d EXCEPT !.lock = FALSE]

\* os.path.getmtime of the backing file, None when it does not exist.
CurrentMtime(d) == IF d.file = Absent THEN None ELSE Some(d.mtime)

\* _load_all, lines 97-112, on disk d and handle m: the outcome and the
\* handle afterwards.
LoadAllIgnoringMtime(d, m) ==
    IF m.cache # None
    THEN [out |-> Returned(m.cache.some), m |-> m]
    ELSE LET raw == LoadRawData(d.file) IN
         IF raw.kind = "raise" THEN [out |-> raw, m |-> m]
         ELSE [out |-> raw,
               m |-> [m EXCEPT !.cache = Some(raw.value),
                               !.cache_mtime = CurrentMtime(d),
                               !.cache_serialized =
                                   Some(SerializeData(raw.value))]]
LoadAll(d, m) ==
    IF m.cache # None /\ m.cache_mtime = CurrentMtime(d)
    THEN [out |-> Returned(m.cache.some), m |-> m]
    ELSE LET raw == LoadRawData(d.file) IN
         IF raw.kind = "raise" THEN [out |-> raw, m |-> m]
         ELSE [out |-> raw,
               m |-> [m EXCEPT !.cache = Some(raw.value),
                               !.cache_mtime = CurrentMtime(d),
                               !.cache_serialized =
                                   Some(SerializeData(raw.value))]]

\* The comparison of lines 123-131: every entry of data is in the cache
\* with an equal value, and the two have the same number of entries.
SameEntriesIgnoringSize(existing, data) ==
    \A i \in DOMAIN data :
        (data[i].k \in Keys(existing)) /\ Lookup(existing, data[i].k) = data[i].v
SameEntries(existing, data) ==
    /\ \A i \in DOMAIN data :
          (data[i].k \in Keys(existing)) /\ Lookup(existing, data[i].k) = data[i].v
    /\ Len(existing) = Len(data)

\* _save_all, lines 115-138, writing at time t: which branch was taken, the
\* disk and the handle afterwards.
SaveAllKeepingCache(d, m, data, t) ==
    LET serialized == SerializeData(data) IN
    IF m.cache_serialized # None /\ m.cache_serialized.some = serialized
    THEN [way |-> "same_text", d |-> d, m |-> [m EXCEPT !.cache = Some(data)]]
    ELSE IF m.cache # None /\ SameEntries(m.cache.some, data)
    THEN [way |-> "same_entries", d |-> d,
          m |-> [m EXCEPT !.cache = Some(data),
                          !.cache_serialized = Some(serialized)]]
    ELSE [way |-> "write", d |-> SaveRawData(d, serialized, t),
          m |-> [m EXCEPT !.cache_serialized = Some(serialized),
                          !.cache_mtime = Some(t)]]
SaveAll(d, m, data, t) ==
    LET serialized == SerializeData(data) IN
    IF m.cache_serialized # None /\ m.cache_serialized.some = serialized
    THEN [way |-> "same_text", d |-> d, m |-> [m EXCEPT !.cache = Some(data)]]
    ELSE IF m.cache # None /\ SameEntries(m.cache.some, data)
    THEN [way |-> "same_entries", d |-> d,
          m |-> [m EXCEPT !.cache = Some(data),
                          !.cache_serialized = Some(serialized)]]
    ELSE [way |-> "write", d |-> SaveRawData(d, serialized, t),
          m |-> [m EXCEPT !.cache = Some(data),
                          !.cache_serialized = Some(serialized),
                          !.cache_mtime = Some(t)]]

\* What a storage call hands back: the error it raised ("" when it returned),
\* the record or the list it returned, and whether it wrote the backing file.
StoreOut(d, m, err, rec, recs, wrote) ==
    [d |-> d, m |-> m, err |-> err, rec |-> rec, recs |-> recs, wrote |-> wrote]

\* create_storage, lines 60-73: the file is written as "{}" only when it does
\* not exist; the handle starts without a cache.
CreateStorageAlwaysWriting(d, t) ==
    StoreOut([d EXCEPT !.file = ObjectText(<<>>), !.mtime = t],
             [created |-> TRUE, cache |-> None, cache_mtime |-> None,
              cache_serialized |-> None],
             "", None, <<>>, TRUE)
CreateStorage(d, t) ==
    StoreOut(IF d.file = Absent
             THEN [d EXCEPT !.file = ObjectText(<<>>), !.mtime = t]
             ELSE d,
             [created |-> TRUE, cache |-> None, cache_mtime |-> None,
              cache_serialized |-> None],
             "", None, <<>>, d.file = Absent)

\* save_task, lines 141-149: tasks[str(task["id"])] = task under the lock,
\* which the finally clause removes also when loading raised.
SaveTaskWithoutCache(d, m, task, t) ==
    LET locked == AcquireLock(d)
        loaded == LoadAll(locked, m)
    IN  IF loaded.out.kind = "raise"
        THEN StoreOut(ReleaseLock(locked), loaded.m, loaded.out.type,
                      None, <<>>, FALSE)
        ELSE LET tasks == Put(loaded.out.value, task.id, task)
                 saved == SaveAll(locked,
                                  [loaded.m EXCEPT !.cache = None,
                                                   !.cache_serialized = None],
                                  tasks, t)
             IN  StoreOut(ReleaseLock(saved.d), saved.m, "", None, <<>>,
                          saved.way = "write")
SaveTask(d, m, task, t) ==
    LET locked == AcquireLock(d)
        loaded == LoadAll(locked, m)
    IN  IF loaded.out.kind = "raise"
        THEN StoreOut(ReleaseLock(locked), loaded.m, loaded.out.type,
                      None, <<>>, FALSE)
        ELSE LET tasks == Put(loaded.out.value, task.id, task)
                 saved == SaveAll(locked, loaded.m, tasks, t)
             IN  StoreOut(ReleaseLock(saved.d), saved.m, "", None, <<>>,
                          saved.way = "write")

\* get_task, lines 152-158
GetTask(d, m, task_id) ==
    LET loaded == LoadAll(d, m) IN
    IF loaded.out.kind = "raise"
    THEN StoreOut(d, loaded.m, loaded.out.type, None, <<>>, FALSE)
    ELSE IF ~(task_id \in Keys(loaded.out.value))
    THEN StoreOut(d, loaded.m, "KeyError", None, <<>>, FALSE)
    ELSE StoreOut(d, loaded.m, "", Lookup(loaded.out.value, task_id), <<>>, FALSE)

\* sorted(results, key=created_at), lines 171-172: Python's sort is stable.
RECURSIVE InsertByCreatedAt(_, _)
InsertByCreatedAt(sorted, task) ==
    IF sorted = <<>> THEN <<task>>
    ELSE IF StrLess(GetField(task, "created_at", <<>>),
                    GetField(Head(sorted), "created_at", <<>>))
    THEN <<task>> \o sorted
    ELSE <<Head(sorted)>> \o InsertByCreatedAt(Tail(sorted), task)
RECURSIVE SortByCreatedAt(_)
SortByCreatedAt(s) ==
    IF s = <<>> THEN <<>>
    ELSE InsertByCreatedAt(SortByCreatedAt(SubSeq(s, 1, Len(s) - 1)), s[Len(s)])

\* list_tasks, lines 161-172: filter is None or Some(status).
KeepsAll(task, filter) == TRUE
Keeps(task, filter) ==
    filter = None \/ ("status" \in DOMAIN task /\ task.status = filter.some)
ListTasks(d, m, filter) ==
    LET loaded == LoadAll(d, m) IN
    IF loaded.out.kind = "raise"
    THEN StoreOut(d, loaded.m, loaded.out.type, None, <<>>, FALSE)
    ELSE StoreOut(d, loaded.m, "", None,
                  SortByCreatedAt(SelectSeq(
                      [i \in DOMAIN loaded.out.value |-> loaded.out.value[i].v],
                      LAMBDA task : Keeps(task, filter))),
                  FALSE)

\* delete_task, lines 175-186
DeleteTaskLeavingLock(d, m, task_id, t) ==
    LET locked == AcquireLock(d)
        loaded == LoadAll(locked, m)
    IN  IF loaded.out.kind = "raise"
        THEN StoreOut(locked, loaded.m, loaded.out.type, None, <<>>, FALSE)
        ELSE IF ~(task_id \in Keys(loaded.out.value))
        THEN StoreOut(locked, loaded.m, "KeyError", None, <<>>, FALSE)
        ELSE LET saved == SaveAll(locked, loaded.m,
                                  Del(loaded.out.value, task_id), t)
             IN  StoreOut(ReleaseLock(saved.d), saved.m, "", None, <<>>,
                          saved.way = "write")
DeleteTask(d, m, task_id, t) ==
    LET locked == AcquireLock(d)
        loaded == LoadAll(locked, m)
    IN  IF loaded.out.kind = "raise"
        THEN StoreOut(ReleaseLock(locked), loaded.m, loaded.out.type,
                      None, <<>>, FALSE)
        ELSE IF ~(task_id \in Keys(loaded.out.value))
        THEN StoreOut(ReleaseLock(locked), loaded.m, "KeyError",
                      None, <<>>, FALSE)
        ELSE LET saved == SaveAll(locked, loaded.m,
                                  Del(loaded.out.value, task_id), t)
             IN  StoreOut(ReleaseLock(saved.d), saved.m, "", None, <<>>,
                          saved.way = "write")

\* The task records the callers pass in, with their two nested lists.  The
\* second timestamp is the string "10", which sorts before the string "2".
Task(id, status, created_at) ==
    [id |-> id, status |-> status, created_at |-> created_at,
     chat_history |-> <<>>, source_files |-> <<>>]
Tasks ==
    {Task("t1", "pending", <<1, 0>>), Task("t1", "completed", <<1, 0>>),
     Task("t2", "pending", <<2>>), Task("t2", "pending", <<1>>),
     Task("t3", "completed", <<1, 0>>), [id |-> "t3"]}

\* What the backing file may hold before the first handle is created.
InitialFiles ==
    {Absent, File("empty"), File("garbage"), File("scalar"), File("undecodable"),
     ObjectText(<<>>),
     ObjectText(<<[k |-> "junk", v |-> NonObject],
                  [k |-> "t1", v |-> Task("t1", "pending", <<1, 0>>)]>>),
     ObjectText(<<[k |-> "t2", v |-> Task("t2", "pending", <<2>>)],
                  [k |-> "t1", v |-> Task("t1", "completed", <<1, 0>>)]>>)}

\* What handle h finds under task_id, None when it finds nothing.
Found(h, task_id) ==
    LET got == GetTask(disk, manager[h], task_id)
    IN  IF got.err = "" THEN got.rec ELSE None

\* A storage call through handle h ran to its end with result res; old is
\* what the handle found under id when the call began, locked whether the
\* lock file existed then.
StoreCall(op, h, id, filter, task, res) ==
    /\ spc = "idle"
    /\ disk' = res.d
    /\ manager' = [manager EXCEPT ![h] = res.m]
    /\ sres' = [op |-> op, h |-> h, id |-> id, filter |-> filter,
                task |-> task, old |-> Found(h, id), err |-> res.err,
                rec |-> res.rec,
                recs |-> res.recs, wrote |-> res.wrote, reply |-> None,
                ok |-> FALSE, calls |-> 0, locked |-> disk.lock,
                mutated |-> "no"]
    /\ UNCHANGED <<now, spc, work, clientVars>>

Create(h) ==
    StoreCall("create", h, "", None, None, CreateStorage(disk, now))

Save(h) ==
    /\ manager[h].created
    /\ \E task \in Tasks :
          StoreCall("save", h, task.id, None, task,
                    SaveTask(disk, manager[h], task, now))

Get(h) ==
    /\ manager[h].created
    /\ \E task_id \in TaskIds :
          StoreCall("get", h, task_id, None, None,
                    GetTask(disk, manager[h], task_id))

List(h) ==
    /\ manager[h].created
    /\ \E filter \in {None, Some("pending"), Some("completed")} :
          StoreCall("list", h, "", filter, None,
                    ListTasks(disk, manager[h], filter))

Delete(h) ==
    /\ manager[h].created
    /\ \E task_id \in TaskIds :
          StoreCall("delete", h, task_id, None, None,
                    DeleteTask(disk, manager[h], task_id, now))

\* Time passes between two calls.
Tick ==
    /\ spc = "idle"
    /\ now < MaxTime
    /\ now' = now + 1
    /\ UNCHANGED <<disk, manager, sres, spc, work, clientVars>>

\* One process with one handle on a backing file found in any condition,
\* with or without a lock file left behind.
InitStore ==
    /\ ClientInit
    /\ \E file \in InitialFiles, lock \in BOOLEAN :
          disk = [file |-> file, mtime |-> 0, tmp |-> Absent, lock |-> lock]
    /\ now = 0
    /\ manager = [h \in Handles |-> NoHandle]
    /\ sres = NoStoreCall
    /\ spc = "idle"
    /\ work = NoWork

NextStore ==
    \/ Create(MainHandle)
    \/ Save(MainHandle)
    \/ Get(MainHandle)
    \/ List(MainHandle)
    \/ Delete(MainHandle)
    \/ Tick

SpecStore == InitStore /\ [][NextStore]_vars

\* The number of items callers append to the nested lists of one cache.
MaxAppended == 1

\* What the caller of the last call through handle h can do afterwards to a
\* record that call returned (get, list) or was given (save_task): assign a
\* top-level field, or append to one of the record's nested lists.  The
\* record's own dict is a copy made by _copy_dict_of_dicts (lines 49-57),
\* which copies the values of the inner dict by reference: the nested lists
\* of the caller's record are the list objects of the handle's cache entry.
MutateHeld(h) ==
    /\ spc = "idle"
    /\ sres.h = h /\ sres.err = "" /\ sres.mutated = "no"
    /\ sres.op \in {"get", "list", "save"}
    /\ manager[h].cache # None
    /\ LET cache == manager[h].cache.some
           held == IF sres.op = "list"
                   THEN {k \in Keys(cache) :
                            \E i \in DOMAIN sres.recs :
                               sres.recs[i] = Lookup(cache, k)}
                   ELSE {sres.id} \cap Keys(cache)
       IN  \E k \in held, part \in {"status", "chat_history", "source_files"} :
              /\ sres' = [sres EXCEPT !.mutated = part]
              /\ IF part = "status"
                 THEN UNCHANGED manager
                 ELSE /\ part \in DOMAIN Lookup(cache, k)
                      /\ Cardinality(
                            {x \in (DOMAIN cache)
                                    \X {"chat_history", "source_files"}
                                    \X (1..MaxAppended) :
                                /\ x[2] \in DOMAIN cache[x[1]].v
                                /\ x[3] <= Len(cache[x[1]].v[x[2]])})
                            < MaxAppended
                      /\ manager' = [manager EXCEPT ![h].cache =
                             Some(Put(cache, k,
                                      [Lookup(cache, k) EXCEPT
                                          ![part] = Append(@, "x")]))]
    /\ UNCHANGED <<disk, now, spc, work, clientVars>>

NextAlias ==
    \/ Create(MainHandle)
    \/ Save(MainHandle)
    \/ Get(MainHandle)
    \/ List(MainHandle)
    \/ MutateHeld(MainHandle)

SpecAlias == InitStore /\ [][NextAlias]_vars

\* Two handles on the same path, used one call at a time: one through which
\* records are saved and one through which they are read.
NextShared ==
    \/ \E h \in Handles : Create(h)
    \/ Save(MainHandle)
    \/ Get(OtherHandle)
    \/ Tick

SpecShared == InitStore /\ [][NextShared]_vars

\* Two handles on one file; each handle saves, the first one deletes too,
\* and every call runs to its end before the next one starts.
NextBoth ==
    \/ \E h \in Handles : Create(h)
    \/ \E h \in Handles,
          task \in {Task("t1", "pending", <<1, 0>>), Task("t2", "pending", <<2>>)} :
          /\ manager[h].created
          /\ StoreCall("save", h, task.id, None, task,
                       SaveTask(disk, manager[h], task, now))
    \/ Delete(MainHandle)
    \/ Tick

SpecBoth == InitStore /\ [][NextBoth]_vars

\* ============================================================== job manager
\* job_manager.py send_message over models.py and the store.

MaxHistory == 2

\* models.py, lines 9-17
TASK_STATUS_VALUES ==
    {"pending", "in_progress", "completed", "paused", "waiting_approval"}
CHAT_ROLES == {"user", "jules", "system"}

\* create_chat_message, lines 40-53; timestamp is the one passed in or, when
\* none is, the current time.
CreateChatMessage(role, content, timestamp) ==
    IF role \notin CHAT_ROLES \/ content = ""
    THEN Raised("ValueError", "")
    ELSE Returned([type |-> role, content |-> content, timestamp |-> timestamp])

\* _normalize_chat_history, lines 114-120, over chat_message_from_dict, lines
\* 61-66, at time t: the first item that fails decides the error, and an item
\* that is not an object has no get to call.
NormalizeChatHistory(history, t) ==
    LET message(data) ==
            IF ~IsObject(data) THEN Raised("AttributeError", "")
            ELSE CreateChatMessage(GetField(data, "type", ""),
                                   GetField(data, "content", ""),
                                   GetField(data, "timestamp", t))
        failing == {i \in DOMAIN history : message(history[i]).kind = "raise"}
    IN  IF failing # {}
        THEN message(history[CHOOSE i \in failing : \A j \in failing : i <= j])
        ELSE Returned([i \in DOMAIN history |-> message(history[i]).value])

\* An ISO-8601 text is its date-time digits and its zone suffix ("" for a
\* naive one); a datetime is the same instant with tzinfo None or a zone.
\* jules_task_from_dict and create_jules_task, lines 132-224, as far as the
\* fields kept here go: the status must be a known one, created_at must
\* parse (datetime.fromisoformat) and, when naive, gets the local zone
\* (_ensure_datetime), the history items must be chat messages.
JulesTaskFromDictAnyStatus(data, t) ==
    IF "created_at" \notin DOMAIN data
    THEN Raised("ValueError", "")
    ELSE LET history == NormalizeChatHistory(GetField(data, "chat_history", <<>>), t)
             parsed == [at |-> data.created_at.iso,
                        tzinfo |-> IF data.created_at.zone = "" THEN None
                                   ELSE Some(data.created_at.zone)]
             created_at == IF parsed.tzinfo = None
                           THEN [parsed EXCEPT !.tzinfo = Some("+00:00")]
                           ELSE parsed
         IN  IF history.kind = "raise" THEN history
             ELSE Returned([id |-> GetField(data, "id", "None"),
                            status |-> GetField(data, "status", "None"),
                            created_at |-> created_at,
                            chat_history |-> history.value,
                            source_files |-> <<>>])
JulesTaskFromDict(data, t) ==
    IF \/ GetField(data, "status", "None") \notin TASK_STATUS_VALUES
       \/ "created_at" \notin DOMAIN data
    THEN Raised("ValueError", "")
    ELSE LET history == NormalizeChatHistory(GetField(data, "chat_history", <<>>), t)
             parsed == [at |-> data.created_at.iso,
                        tzinfo |-> IF data.created_at.zone = "" THEN None
                                   ELSE Some(data.created_at.zone)]
             created_at == IF parsed.tzinfo = None
                           THEN [parsed EXCEPT !.tzinfo = Some("+00:00")]
                           ELSE parsed
         IN  IF history.kind = "raise" THEN history
             ELSE Returned([id |-> GetField(data, "id", "None"),
                            status |-> data.status,
                            created_at |-> created_at,
                            chat_history |-> history.value,
                            source_files |-> <<>>])

\* jules_task_to_dict, lines 177-198: created_at.isoformat()
JulesTaskToDict(task) ==
    [task EXCEPT !.created_at =
        [iso |-> @.at, zone |-> IF @.tzinfo = None THEN "" ELSE @.tzinfo.some]]

\* What the remote tool call gives: it raises, or it returns a response whose
\* content is missing or a list of items, an item's text being some text that
\* is not JSON or the encoding of a JSON value.
RemoteRaises == [kind |-> "raises"]
Response(content) == [kind |-> "response", content |-> content]
JsonText(value) == [type |-> "text", text |-> [json |-> TRUE, value |-> value]]

\* _extract_response_text, lines 113-123
ExtractResponseText(reply) ==
    IF reply.content = None \/ reply.content = Some(<<>>)
    THEN Raised("ValueError", "")
    ELSE Returned(reply.content.some[1].text)

\* Python truth of a decoded JSON value.
Truthy(v) ==
    IF v.t = "null" THEN FALSE
    ELSE IF v.t = "bool" THEN v.b
    ELSE IF v.t = "num" THEN v.n # 0
    ELSE IF v.t = "str" THEN v.s # ""
    ELSE v.m # EmptyMap

\* send_message, lines 231-240, on the decoded payload: "true" and "false"
\* are the values to return, anything else the error to raise.
ReplyVerdictSuccessFirst(payload) ==
    LET success_value ==
            IF "success" \in DOMAIN payload THEN payload["success"] ELSE Null
        error == IF "error" \in DOMAIN payload THEN payload["error"] ELSE Null
    IN  IF success_value = Bool(FALSE) THEN "false"
        ELSE IF success_value = Bool(TRUE) THEN "true"
        ELSE IF Truthy(error) THEN "RuntimeError"
        ELSE "ValueError"
ReplyVerdict(payload) ==
    LET success_value ==
            IF "success" \in DOMAIN payload THEN payload["success"] ELSE Null
        error == IF "error" \in DOMAIN payload THEN payload["error"] ELSE Null
    IN  IF success_value = Bool(FALSE) THEN "false"
        ELSE IF Truthy(error) THEN "RuntimeError"
        ELSE IF success_value = Null THEN "ValueError"
        ELSE IF success_value # Bool(TRUE) THEN "ValueError"
        ELSE "true"

\* The arguments of the job manager's calls are texts given character by
\* character, one string per character; Strip is str.strip() and Join the
\* Python string of the characters.
RECURSIVE Strip(_)
Strip(s) ==
    IF s = <<>> THEN s
    ELSE IF Head(s) \in {" ", "\t", "\n"} THEN Strip(Tail(s))
    ELSE IF s[Len(s)] \in {" ", "\t", "\n"} THEN Strip(SubSeq(s, 1, Len(s) - 1))
    ELSE s
RECURSIVE Join(_)
Join(s) == IF s = <<>> THEN "" ELSE Head(s) \o Join(Tail(s))

\* _validate_task_identifier, lines 99-110
ValidateTaskIdentifierAnyCharacter(task_id) ==
    LET stripped == Strip(task_id)
        allowed_characters ==
            {"a", "b", "c", "d", "e", "f", "g", "h", "i", "j", "k", "l", "m",
             "n", "o", "p", "q", "r", "s", "t", "u", "v", "w", "x", "y", "z",
             "A", "B", "C", "D", "E", "F", "G", "H", "I", "J", "K", "L", "M",
             "N", "O", "P", "Q", "R", "S", "T", "U", "V", "W", "X", "Y", "Z",
             "0", "1", "2", "3", "4", "5", "6", "7", "8", "9", "-", "_"}
    IN  IF stripped = <<>>
        THEN Raised("ValueError", "Task identifier cannot be blank")
        ELSE Returned(Join(stripped))
ValidateTaskIdentifier(task_id) ==
    LET stripped == Strip(task_id)
        allowed_characters ==
            {"a", "b", "c", "d", "e", "f", "g", "h", "i", "j", "k", "l", "m",
             "n", "o", "p", "q", "r", "s", "t", "u", "v", "w", "x", "y", "z",
             "A", "B", "C", "D", "E", "F", "G", "H", "I", "J", "K", "L", "M",
             "N", "O", "P", "Q", "R", "S", "T", "U", "V", "W", "X", "Y", "Z",
             "0", "1", "2", "3", "4", "5", "6", "7", "8", "9", "-", "_"}
    IN  IF stripped = <<>>
        THEN Raised("ValueError", "Task identifier cannot be blank")
        ELSE IF \E i \in DOMAIN stripped : stripped[i] \notin allowed_characters
        THEN Raised("ValueError", "Task identifier contains invalid characters")
        ELSE Returned(Join(stripped))

\* _validate_message_content, lines 181-187
ValidateMessageContent(message) ==
    IF Strip(message) = <<>>
    THEN Raised("ValueError", "Message text cannot be blank")
    ELSE Returned(Join(Strip(message)))

\* _validate_description, lines 262-268
ValidateDescription(description) ==
    IF Strip(description) = <<>>
    THEN Raised("ValueError", "Task description cannot be blank")
    ELSE Returned(Join(Strip(description)))

\* _validate_repository, lines 251-259
ValidateRepository(repository) ==
    LET stripped == Strip(repository)
    IN  IF stripped = <<>>
        THEN Raised("ValueError", "Repository cannot be blank")
        ELSE IF \A i \in DOMAIN stripped : stripped[i] # "/"
        THEN Raised("ValueError", "Repository must include owner and name")
        ELSE Returned(Join(stripped))

\* _invoke_mcp_tool, lines 126-135, on a remote peer that would answer the
\* successive invocations of this call with the replies of remote: the
\* handler is called once and what it gives is handed on, a raise included.
InvokeMcpToolRetrying(remote) ==
    IF remote[1] = RemoteRaises THEN [reply |-> remote[2], calls |-> 2]
    ELSE [reply |-> remote[1], calls |-> 1]
InvokeMcpTool(remote) == [reply |-> remote[1], calls |-> 1]

\* What a job manager call hands back: the disk and the storage handle
\* afterwards, the error raised ("" when it returned), the value returned
\* (ok for send_message, rec for the task calls), and of the remote tool the
\* reply it gave and the number of times it was invoked.
SendOut(d, m, err, ok, rec, invoked) ==
    [d |-> d, m |-> m, err |-> err, ok |-> ok, rec |-> rec,
     reply |-> IF invoked = None THEN None ELSE Some(invoked.some.reply),
     calls |-> IF invoked = None THEN 0 ELSE invoked.some.calls]

\* send_message, lines 190-248, at time t.
SendMessage(d, m, task_id, message, remote, t) ==
    LET validated_id == ValidateTaskIdentifier(task_id)
        validated_message == ValidateMessageContent(message)
    IN
    IF validated_id.kind = "raise" \/ validated_message.kind = "raise"
    THEN SendOut(d, m, "ValueError", FALSE, None, None)
    ELSE
    LET existing == GetTask(d, m, validated_id.value) IN
    IF existing.err # ""
    THEN SendOut(d, existing.m, existing.err, FALSE, None, None)
    ELSE
    LET normalized == JulesTaskFromDict(existing.rec, t) IN
    IF normalized.kind = "raise"
    THEN SendOut(d, existing.m, normalized.type, FALSE, None, None)
    ELSE
    LET invoked == Some(InvokeMcpTool(remote)) IN
    IF invoked.some.reply = RemoteRaises
    THEN SendOut(d, existing.m, "RuntimeError", FALSE, None, invoked)
    ELSE
    LET text == ExtractResponseText(invoked.some.reply) IN
    IF text.kind = "raise" \/ ~text.value.json \/ ~IsDict(text.value.value)
    THEN SendOut(d, existing.m, "ValueError", FALSE, None, invoked)
    ELSE
    LET verdict == ReplyVerdict(text.value.value.m) IN
    IF verdict = "false"
    THEN SendOut(d, existing.m, "", FALSE, None, invoked)
    ELSE IF verdict # "true"
    THEN SendOut(d, existing.m, verdict, FALSE, None, invoked)
    ELSE
    LET task == normalized.value
        history == Append(task.chat_history,
                          CreateChatMessage("user", validated_message.value,
                                            t).value)
        saved == SaveTask(d, existing.m,
                          JulesTaskToDict([task EXCEPT !.chat_history = history]),
                          t)
    IN  SendOut(saved.d, saved.m, saved.err, saved.err = "", None, invoked)

\* The stored tasks of the job manager's store: one without history and with
\* a naive created_at, one whose history item has no timestamp, one with a
\* status the models reject.
JobTask(id, status, zone, history) ==
    [id |-> id, status |-> status,
     created_at |-> [iso |-> <<1, 0>>, zone |-> zone],
     chat_history |-> history]
Replies ==
    {RemoteRaises, Response(None), Response(Some(<<>>)),
     Response(Some(<<[type |-> "text", text |-> [json |-> FALSE]]>>)),
     Response(Some(<<JsonText(Num(5))>>))}
    \cup {Response(Some(<<JsonText(Obj(s @@ e))>>)) :
              s \in {EmptyMap, "success" :> Bool(TRUE), "success" :> Bool(FALSE),
                     "success" :> Null, "success" :> Num(1)},
              e \in {EmptyMap, "error" :> Str(""), "error" :> Str("not sent")}}

\* get_task, lines 138-178, at time t
ManagerGetTaskPersistingNotFound(d, m, task_id, remote, t) ==
    LET validated_id == ValidateTaskIdentifier(task_id) IN
    IF validated_id.kind = "raise"
    THEN SendOut(d, m, "ValueError", FALSE, None, None)
    ELSE
    LET invoked == Some(InvokeMcpTool(remote)) IN
    IF invoked.some.reply = RemoteRaises
    THEN SendOut(d, m, "RuntimeError", FALSE, None, invoked)
    ELSE
    LET text == ExtractResponseText(invoked.some.reply) IN
    IF text.kind = "raise" \/ ~text.value.json
    THEN SendOut(d, m, "ValueError", FALSE, None, invoked)
    ELSE
    LET raw_data == text.value.value IN
    IF ~IsDict(raw_data)
    THEN SendOut(d, m, "ValueError", FALSE, None, invoked)
    ELSE
    LET normalized_task == JulesTaskFromDict(raw_data.m, t) IN
    IF normalized_task.kind = "raise"
    THEN SendOut(d, m, normalized_task.type, FALSE, None, invoked)
    ELSE
    LET saved == SaveTask(d, m, JulesTaskToDict(normalized_task.value), t)
    IN  SendOut(saved.d, saved.m, saved.err, FALSE,
                IF saved.err = "" THEN Some(normalized_task.value) ELSE None,
                invoked)
ManagerGetTask(d, m, task_id, remote, t) ==
    LET validated_id == ValidateTaskIdentifier(task_id) IN
    IF validated_id.kind = "raise"
    THEN SendOut(d, m, "ValueError", FALSE, None, None)
    ELSE
    LET invoked == Some(InvokeMcpTool(remote)) IN
    IF invoked.some.reply = RemoteRaises
    THEN SendOut(d, m, "RuntimeError", FALSE, None, invoked)
    ELSE
    LET text == ExtractResponseText(invoked.some.reply) IN
    IF text.kind = "raise" \/ ~text.value.json
    THEN SendOut(d, m, "ValueError", FALSE, None, invoked)
    ELSE
    LET raw_data == text.value.value IN
    IF IsDict(raw_data) /\ GetField(raw_data.m, "error", Null) = Str("not_found")
    THEN SendOut(d, m, "KeyError", FALSE, None, invoked)
    ELSE IF ~IsDict(raw_data)
    THEN SendOut(d, m, "ValueError", FALSE, None, invoked)
    ELSE
    LET normalized_task == JulesTaskFromDict(raw_data.m, t) IN
    IF normalized_task.kind = "raise"
    THEN SendOut(d, m, normalized_task.type, FALSE, None, invoked)
    ELSE
    LET saved == SaveTask(d, m, JulesTaskToDict(normalized_task.value), t)
    IN  SendOut(saved.d, saved.m, saved.err, FALSE,
                IF saved.err = "" THEN Some(normalized_task.value) ELSE None,
                invoked)

\* _normalize_branch, lines 271-281; no branch given is the empty text here.
NormalizeBranch(branch) ==
    LET stripped == Strip(branch)
    IN  IF stripped = <<>> THEN Returned("main")
        ELSE IF \E i \in DOMAIN stripped :
                    /\ stripped[i] # "/"
                    /\ ValidateTaskIdentifier(<<stripped[i]>>).kind = "raise"
        THEN Raised("ValueError", "Branch contains invalid characters")
        ELSE Returned(Join(stripped))

\* create_task, lines 284-339, at time t
CreateTask(d, m, description, repository, branch, remote, t) ==
    IF \/ ValidateDescription(description).kind = "raise"
       \/ ValidateRepository(repository).kind = "raise"
       \/ NormalizeBranch(branch).kind = "raise"
    THEN SendOut(d, m, "ValueError", FALSE, None, None)
    ELSE
    LET invoked == Some(InvokeMcpTool(remote)) IN
    IF invoked.some.reply = RemoteRaises
    THEN SendOut(d, m, "RuntimeError", FALSE, None, invoked)
    ELSE
    LET text == ExtractResponseText(invoked.some.reply) IN
    IF text.kind = "raise" \/ ~text.value.json
    THEN SendOut(d, m, "ValueError", FALSE, None, invoked)
    ELSE
    LET raw_data == text.value.value IN
    IF IsDict(raw_data) /\ Truthy(GetField(raw_data.m, "error", Null))
    THEN SendOut(d, m, "RuntimeError", FALSE, None, invoked)
    ELSE IF ~IsDict(raw_data)
    THEN SendOut(d, m, "ValueError", FALSE, None, invoked)
    ELSE
    LET normalized_task == JulesTaskFromDict(raw_data.m, t) IN
    IF normalized_task.kind = "raise"
    THEN SendOut(d, m, normalized_task.type, FALSE, None, invoked)
    ELSE
    LET saved == SaveTask(d, m, JulesTaskToDict(normalized_task.value), t)
    IN  SendOut(saved.d, saved.m, saved.err, FALSE,
                IF saved.err = "" THEN Some(normalized_task.value) ELSE None,
                invoked)

\* The task identifiers callers pass: a blank one, one with blanks around
\* it, one with a character that is not allowed.
RawIds == {<<" ">>, <<" ", "t", "1", " ">>, <<"t", "3">>, <<"t", "!">>}

\* The replies of the remote tool to jules_get_task and jules_create_task:
\* a raise, a text that is not JSON, a payload that is no object, the bare
\* not_found object, task payloads the models accept (with or without an id
\* and a chat history), and one such payload with an error field added, its
\* status dropped or unknown, or a history item that has an unknown role or
\* is not an object.
TaskReplies ==
    LET good(i, s, h) ==
            i @@ ("status" :> s) @@ h
              @@ ("created_at" :> [iso |-> <<1, 0>>, zone |-> ""])
        t1 == "id" :> "t1"
        bad(h) == good(t1, "pending", "chat_history" :> <<h>>)
    IN  {RemoteRaises,
         Response(Some(<<[type |-> "text", text |-> [json |-> FALSE]]>>)),
         Response(Some(<<JsonText(Num(5))>>))}
        \cup {Response(Some(<<JsonText(Obj(payload))>>)) : payload \in
                {"error" :> Str("not_found"),
                 good(EmptyMap, "pending", EmptyMap),
                 good(t1, "completed", EmptyMap),
                 bad([type |-> "jules", content |-> "hi"]),
                 ("error" :> Str("not_found")) @@ good(t1, "pending", EmptyMap),
                 ("error" :> Str("boom")) @@ good(t1, "pending", EmptyMap),
                 good(t1, "archived", EmptyMap),
                 t1 @@ ("created_at" :> [iso |-> <<1, 0>>, zone |-> ""]),
                 bad([type |-> "bad", content |-> "hi"]),
                 bad(NonObject)}}

\* A job manager call through the manager whose store is handle h ran to its
\* end with result res.
JobCall(op, h, id, args, res) ==
    /\ manager[h].created
    /\ spc = "idle"
    /\ disk' = res.d
    /\ manager' = [manager EXCEPT ![h] = res.m]
    /\ sres' = [NoStoreCall EXCEPT !.op = op, !.h = h, !.id = id,
                                   !.task = args, !.old = Found(h, id),
                                   !.err = res.err, !.rec = res.rec,
                                   !.wrote = res.d.file # disk.file,
                                   !.reply = res.reply, !.ok = res.ok,
                                   !.calls = res.calls,
                                   !.locked = disk.lock]
    /\ UNCHANGED <<now, spc, work, clientVars>>

\* send_message when the remote peer answers with one of replies; histories
\* are kept to MaxHistory messages.  The id recorded is the text stripped.
Send(h, replies) ==
    \E task_id \in RawIds,
       message \in {<<" ">>, <<"h", "e", "l", "l", "o", "\n">>},
       reply \in replies :
        LET id == Join(Strip(task_id)) IN
        /\ Found(h, id) # None =>
              Len(GetField(Found(h, id), "chat_history", <<>>)) < MaxHistory
        /\ JobCall("send", h, id,
                   [message |-> Join(Strip(message)), task_id |-> task_id,
                    raw |-> message],
                   SendMessage(disk, manager[h], task_id, message,
                               <<reply, reply>>, now))

\* get_task of the job manager
Fetch(h) ==
    \E task_id \in RawIds, reply \in TaskReplies :
        JobCall("get_task", h, Join(Strip(task_id)), [task_id |-> task_id],
                ManagerGetTask(disk, manager[h], task_id, <<reply, reply>>, now))

\* create_task of the job manager: arguments that pass the checks, with and
\* without a branch, and arguments with a blank description, a blank
\* repository, a repository without a slash, a branch with a character that
\* is not allowed.
CreateRemote(h) ==
    \E args \in {[description |-> d, repository |-> r, branch |-> b] :
                    d \in {<<"h", "i">>}, r \in {<<"o", "/", "r", " ">>},
                    b \in {<<>>, <<"f", "/", "x">>}}
                \cup {[description |-> <<" ">>, repository |-> <<"o", "/", "r">>,
                       branch |-> <<>>],
                      [description |-> <<"h", "i">>, repository |-> <<" ">>,
                       branch |-> <<>>],
                      [description |-> <<"h", "i">>, repository |-> <<"o", "r">>,
                       branch |-> <<>>],
                      [description |-> <<"h", "i">>,
                       repository |-> <<"o", "/", "r">>,
                       branch |-> <<"f", "~">>]},
       reply \in TaskReplies :
        JobCall("create_task", h, "", args,
                CreateTask(disk, manager[h], args.description, args.repository,
                           args.branch, <<reply, reply>>, now))

\* A job manager on a missing or a populated store.
InitJob ==
    /\ ClientInit
    /\ \E file \in
          {Absent,
           ObjectText(<<[k |-> "t1", v |-> JobTask("t1", "pending", "", <<>>)],
                        [k |-> "t2",
                         v |-> JobTask("t2", "in_progress", "+00:00",
                                       <<[type |-> "jules", content |-> "hi"]>>)],
                        [k |-> "t3",
                         v |-> JobTask("t3", "archived", "+00:00", <<>>)]>>)} :
          disk = [file |-> file, mtime |-> 0, tmp |-> Absent, lock |-> FALSE]
    /\ now = 0
    /\ manager = [h \in Handles |-> NoHandle]
    /\ sres = NoStoreCall
    /\ spc = "idle"
    /\ work = NoWork

NextJob ==
    \/ Create(MainHandle)
    \/ Send(MainHandle, Replies)
    \/ Get(MainHandle)
    \/ Tick

SpecJob == InitJob /\ [][NextJob]_vars

\* A job manager on a store that starts empty, the remote peer free in its
\* replies.
InitTasks ==
    /\ ClientInit
    /\ disk = [file |-> Absent, mtime |-> 0, tmp |-> Absent, lock |-> FALSE]
    /\ now = 0
    /\ manager = [h \in Handles |-> NoHandle]
    /\ sres = NoStoreCall
    /\ spc = "idle"
    /\ work = NoWork

NextTasks ==
    \/ Create(MainHandle)
    \/ Fetch(MainHandle)
    \/ CreateRemote(MainHandle)
    \/ Send(MainHandle,
            {RemoteRaises, Response(Some(<<JsonText(Num(5))>>))}
            \cup {Response(Some(<<JsonText(Obj(payload))>>)) : payload \in
                    {"success" :> Bool(TRUE), "success" :> Bool(FALSE),
                     ("success" :> Bool(TRUE)) @@ ("error" :> Str("busy"))}})
SpecTasks == InitTasks /\ [][NextTasks]_vars

\* ------------------------------------------------------------ store claims
\* The last storage call was op, and it returned rather than raised.
Returns(op) == sres.op = op /\ sres.err = ""
\* The records the backing file holds, as a fresh reader finds them.
Stored == LoadRawData(disk.file).value

\* C11: once save(r) has completed, whatever the file held before, get of
\* r's identifier through the same handle returns a record equal to r in
\* every field.
C11_SaveThenGet ==
    Returns("save") =>
        LET got == GetTask(disk, manager[sres.h], sres.task.id)
        IN  got.err = "" /\ got.rec = sres.task
\* A save that replaced one of several stored records on disk.
C11_SavedAmongOthers ==
    /\ Returns("save") /\ sres.wrote
    /\ Len(Stored) >= 2
    /\ \E t \in Tasks : t.id = sres.task.id /\ t # sres.task

\* C12: list(status) returns exactly the stored records whose status field
\* equals the given value (all of them when no status is given), each once,
\* in ascending order of created_at (a record without one counts as "").
C12_ListFiltersAndSorts ==
    Returns("list") =>
        LET recs == sres.recs
            matching == {Stored[i].v : i \in {j \in DOMAIN Stored :
                            \/ sres.filter = None
                            \/ /\ "status" \in DOMAIN Stored[j].v
                               /\ Stored[j].v.status = sres.filter.some}}
        IN  /\ {recs[i] : i \in DOMAIN recs} = matching
            /\ Len(recs) = Cardinality(matching)
            /\ \A i, j \in DOMAIN recs :
                  i < j => ~StrLess(GetField(recs[j], "created_at", <<>>),
                                    GetField(recs[i], "created_at", <<>>))
\* A filtered listing that left a stored record out and returned the others
\* in an order that is not the order they are kept in.
C12_ListedSubsetReordered ==
    /\ Returns("list") /\ sres.filter # None
    /\ Len(sres.recs) = 2 /\ Len(Stored) = 3
    /\ sres.recs[1].created_at # sres.recs[2].created_at
    /\ \E i, j \in DOMAIN Stored :
          i < j /\ Stored[i].v = sres.recs[2] /\ Stored[j].v = sres.recs[1]

\* A storage call completed in this step.
Called(ops) == sres' # sres /\ sres'.op \in ops

C14_SaveOverwrites ==
    [][(/\ Called({"save"}) /\ sres'.err = ""
        /\ sres'.old # None /\ sres'.old # sres'.task)
          => LET id == sres'.id
                 cached == manager'[sres'.h].cache.some
             IN  /\ GetTask(disk', manager'[sres'.h], id).rec = sres'.task
                 /\ Cardinality({i \in DOMAIN Stored' : Stored'[i].k = id}) = 1
                 /\ Cardinality({i \in DOMAIN cached : cached[i].k = id}) = 1
                 /\ Keys(Stored') = Keys(Stored)
                 /\ \A k \in Keys(Stored) \ {id} :
                       Lookup(Stored', k) = Lookup(Stored, k)]_vars
\* A record was saved over a different record with its identifier while the
\* store held records with other identifiers.
C14_ReplacedStoredRecord ==
    /\ Returns("save") /\ sres.old # None /\ sres.old # sres.task
    /\ Len(Stored) >= 2

\* C15: a backing file whose content is not valid JSON (text that does not
\* parse, or bytes that are not text at all), or is empty, or is a JSON value
\* that is not an object, behaves as an empty store: through a handle created
\* on it list raises nothing and returns the empty list, and get of any
\* identifier fails with the not-found error.
C15_CorruptFileIsEmptyStore ==
    disk.file \in {File("garbage"), File("undecodable"), File("empty"), File("scalar")} =>
        /\ sres.op = "list" => sres.err = "" /\ sres.recs = <<>>
        /\ sres.op = "get" => sres.err = "KeyError"

\* C16: when a save of r through one handle has completed with a write that
\* changed the file's modification time, get of r's identifier through any
\* other handle on the path returns r and list through it contains r,
\* whether that handle has never loaded the file or holds a cache from
\* before the write.
C16_OtherHandleSeesSave ==
    [][(/\ Called({"save"}) /\ sres'.err = "" /\ sres'.wrote
        /\ CurrentMtime(disk') # CurrentMtime(disk))
          => \A b \in Handles \ {sres'.h} :
                LET got == GetTask(disk', manager'[b], sres'.id)
                    all == ListTasks(disk', manager'[b], None)
                IN  /\ got.err = "" /\ got.rec = sres'.task
                    /\ all.err = ""
                    /\ \E i \in DOMAIN all.recs : all.recs[i] = sres'.task]_vars
\* A record was written through one handle while the other handle held a
\* cache, loaded before the write, that has another record under its id.
C16_SavedBehindStaleCache ==
    /\ Returns("save") /\ sres.wrote /\ sres.h = MainHandle
    /\ manager[OtherHandle].cache # None
    /\ manager[OtherHandle].cache_mtime # CurrentMtime(disk)
    /\ (sres.id \in Keys(manager[OtherHandle].cache.some))
    /\ Lookup(manager[OtherHandle].cache.some, sres.id) # sres.task

\* ------------------------------------------------------ the writer, stepwise
\* save_task and delete_task as the sequence of their effects on the disk, so
\* that the writer can stop between any two of them.

\* _acquire_lock: the call begins.  A save carries its record, a delete only
\* the identifier.
BeginWrite(h) ==
    /\ spc = "idle"
    /\ manager[h].created
    /\ \E op \in {"save", "delete"}, task \in Tasks :
          work' = [NoWork EXCEPT !.h = h, !.op = op, !.id = task.id,
                                 !.task = IF op = "save" THEN task ELSE None,
                                 !.old = Found(h, task.id),
                                 !.before = disk.file,
                                 !.locked = disk.lock]
    /\ disk' = AcquireLock(disk)
    /\ spc' = "locked"
    /\ UNCHANGED <<now, manager, sres, clientVars>>

\* The call is over: the finally clause has removed the lock file.
EndWrite(d, m, err, wrote) ==
    /\ disk' = ReleaseLock(d)
    /\ manager' = [manager EXCEPT ![work.h] = m]
    /\ sres' = [op |-> work.op, h |-> work.h, id |-> work.id, filter |-> None,
                task |-> work.task, old |-> work.old, err |-> err,
                rec |-> None, recs |-> <<>>, wrote |-> wrote, reply |-> None,
                ok |-> FALSE, calls |-> 0, locked |-> work.locked,
                mutated |-> "no"]
    /\ spc' = "idle"
    /\ work' = NoWork
    /\ UNCHANGED <<now, clientVars>>

\* _load_all and the change to the loaded dict (lines 145-146, 179-183).
LoadStep ==
    /\ spc = "locked"
    /\ LET loaded == LoadAll(disk, manager[work.h]) IN
       IF loaded.out.kind = "raise"
       THEN EndWrite(disk, loaded.m, loaded.out.type, FALSE)
       ELSE IF work.op = "delete" /\ ~(work.id \in Keys(loaded.out.value))
       THEN EndWrite(disk, loaded.m, "KeyError", FALSE)
       ELSE LET tasks == IF work.op = "save"
                         THEN Put(loaded.out.value, work.id, work.task)
                         ELSE Del(loaded.out.value, work.id)
            IN  /\ work' = [work EXCEPT !.tasks = tasks,
                                        !.text = SerializeData(tasks)]
                /\ manager' = [manager EXCEPT ![work.h] = loaded.m]
                /\ spc' = "loaded"
                /\ UNCHANGED <<disk, now, sres, clientVars>>

\* _save_all up to the open() of the temporary file: either it finds nothing
\* to write and the call ends, or the temporary file is opened.
DecideStep ==
    /\ spc = "loaded"
    /\ LET saved == SaveAll(disk, manager[work.h], work.tasks, now) IN
       IF saved.way # "write"
       THEN EndWrite(disk, saved.m, "", FALSE)
       ELSE /\ disk' = OpenTemp(disk)
            /\ spc' = "tmp_open"
            /\ UNCHANGED <<now, manager, sres, work, clientVars>>

\* handle.write(serialized) and the close of the temporary file.
WriteStep ==
    /\ spc = "tmp_open"
    /\ disk' = WriteTemp(disk, work.text)
    /\ spc' = "tmp_written"
    /\ UNCHANGED <<now, manager, sres, work, clientVars>>

\* os.replace(temp_path, file_path)
ReplaceStep ==
    /\ spc = "tmp_written"
    /\ disk' = Replace(disk, now)
    /\ spc' = "replaced"
    /\ UNCHANGED <<now, manager, sres, work, clientVars>>

\* _save_all, lines 134-138, and the finally clause.
FinishStep ==
    /\ spc = "replaced"
    /\ EndWrite(disk,
                [manager[work.h] EXCEPT !.cache = Some(work.tasks),
                                        !.cache_serialized = Some(work.text),
                                        !.cache_mtime = CurrentMtime(disk)],
                "", TRUE)

\* The writing process dies inside the call: its handles are gone, whatever
\* it left on the disk stays.
Crash ==
    /\ spc \notin {"idle", "crashed"}
    /\ work' = [work EXCEPT !.at = spc]
    /\ spc' = "crashed"
    /\ manager' = [h \in Handles |-> NoHandle]
    /\ UNCHANGED <<disk, now, sres, clientVars>>

\* A new process takes over the path.
Restart ==
    /\ spc = "crashed"
    /\ spc' = "idle"
    /\ work' = NoWork
    /\ UNCHANGED <<disk, now, manager, sres, clientVars>>

NextCrash ==
    \/ Create(MainHandle)
    \/ BeginWrite(MainHandle)
    \/ LoadStep
    \/ DecideStep
    \/ WriteStep
    \/ ReplaceStep
    \/ FinishStep
    \/ Crash
    \/ Restart
    \/ Get(MainHandle)
    \/ Tick

SpecCrash == InitStore /\ [][NextCrash]_vars

\* ------------------------------------------------ two writers, step by step
\* save_task and delete_task of two handles on one file, with their steps
\* interleaved.  In this specification work[h] is the call of handle h in
\* progress: at is its position, tasks and text the map it is about to
\* write, fd the place of the temporary file it holds open ("tmp" while the
\* file is still under the temporary path, "file" once another writer has
\* renamed it over the backing file, "unlinked" once it has been replaced
\* there), seen the content of the backing file when the call loaded it, and
\* done the outcome of the handle's last completed call.  The disk record
\* carries the modification time of the temporary file as tmpm.

\* A modification time no file and no cache holds: every write gives the
\* file it writes a fresh modification time.
FreshMtime ==
    CHOOSE t \in 0..(2 * Cardinality(Handles) + 2) :
        /\ t \notin {disk.mtime, disk.tmpm}
        /\ \A h \in Handles : manager[h].cache_mtime # Some(t)
        /\ \A u \in 0..(2 * Cardinality(Handles) + 2) :
              (/\ u \notin {disk.mtime, disk.tmpm}
               /\ \A h \in Handles : manager[h].cache_mtime # Some(u)) => t <= u

\* Both handles created on the file create_storage wrote (lines 60-73).
InitRace ==
    /\ ClientInit
    /\ disk = [file |-> ObjectText(<<>>), mtime |-> 0, tmp |-> Absent,
               lock |-> FALSE, tmpm |-> 0]
    /\ now = 0
    /\ manager = [h \in Handles |-> [NoHandle EXCEPT !.created = TRUE]]
    /\ sres = NoStoreCall
    /\ spc = "idle"
    /\ work = [h \in Handles |->
                  [at |-> "idle", op |-> "none", id |-> "", tasks |-> <<>>,
                   text |-> File("empty"), fd |-> "none", seen |-> Absent,
                   err |-> "", done |-> "none"]]

\* save_task lines 143-146 and delete_task lines 177-183: the lock file is
\* created, the map loaded and changed.  Each handle works on its own
\* identifier; the first one deletes too.
RaceLoad(h) ==
    /\ work[h].at = "idle"
    /\ \E op \in IF h = MainHandle THEN {"save", "delete"} ELSE {"save"} :
          LET id == IF h = MainHandle THEN "t1" ELSE "t2"
              loaded == LoadAll(disk, manager[h])
              missing == op = "delete" /\ ~(id \in Keys(loaded.out.value))
              tasks == IF op = "save"
                       THEN Put(loaded.out.value, id, Task(id, "pending", <<1>>))
                       ELSE Del(loaded.out.value, id)
          IN  /\ manager' = [manager EXCEPT ![h] = loaded.m]
              /\ work' = [work EXCEPT ![h] =
                     [@ EXCEPT !.at = IF missing THEN "ending" ELSE "loaded",
                               !.op = op, !.id = id,
                               !.tasks = IF missing THEN <<>> ELSE tasks,
                               !.text = IF missing THEN File("empty")
                                        ELSE SerializeData(tasks),
                               !.seen = disk.file,
                               !.err = IF missing THEN "KeyError" ELSE ""]]
    /\ disk' = AcquireLock(disk)
    /\ UNCHANGED <<now, sres, spc, clientVars>>

\* _save_all lines 117-133 and _save_raw_data lines 42-44: the call finds
\* nothing to write, or opens the temporary file for writing, which creates
\* it or truncates the one that is there.
RaceOpen(h) ==
    /\ work[h].at = "loaded"
    /\ LET saved == SaveAll(disk, manager[h], work[h].tasks, 0) IN
       IF saved.way # "write"
       THEN /\ manager' = [manager EXCEPT ![h] = saved.m]
            /\ work' = [work EXCEPT ![h].at = "ending"]
            /\ UNCHANGED disk
       ELSE /\ disk' = [disk EXCEPT !.tmp = File("partial"), !.tmpm = FreshMtime]
            /\ work' = [work EXCEPT ![h].at = "tmp_open", ![h].fd = "tmp"]
            /\ UNCHANGED manager
    /\ UNCHANGED <<now, sres, spc, clientVars>>

\* _save_raw_data lines 44-45: the text is written from offset 0 of the open
\* file, which is then closed.  What the other writer wrote to the same file
\* beyond the length of this text stays behind it.
RaceWrite(h) ==
    /\ work[h].at = "tmp_open"
    /\ LET old == IF work[h].fd = "tmp" THEN disk.tmp ELSE disk.file
           text == work[h].text
           outs == IF old.kind = "partial" \/ old = text THEN {text}
                   ELSE IF old.kind # "object" THEN {text, File("garbage")}
                   ELSE IF Len(old.members) < Len(text.members) THEN {text}
                   ELSE IF Len(old.members) > Len(text.members)
                   THEN {File("garbage")}
                   ELSE {text, File("garbage")}
       IN  \E new \in outs :
              disk' = CASE work[h].fd = "tmp" ->
                             [disk EXCEPT !.tmp = new, !.tmpm = FreshMtime]
                        [] work[h].fd = "file" ->
                             [disk EXCEPT !.file = new, !.mtime = FreshMtime]
                        [] OTHER -> disk
    /\ work' = [work EXCEPT ![h].at = "tmp_written", ![h].fd = "none"]
    /\ UNCHANGED <<now, manager, sres, spc, clientVars>>

\* _save_raw_data line 46: os.replace(temp_path, file_path) renames the file
\* under the temporary path, whoever wrote it, and fails when there is none.
RaceReplace(h) ==
    /\ work[h].at = "tmp_written"
    /\ IF disk.tmp = Absent
       THEN /\ work' = [work EXCEPT ![h].at = "ending",
                                    ![h].err = "FileNotFoundError"]
            /\ UNCHANGED disk
       ELSE /\ disk' = [disk EXCEPT !.file = disk.tmp, !.mtime = disk.tmpm,
                                    !.tmp = Absent]
            /\ work' = [g \in Handles |->
                           IF g = h THEN [work[g] EXCEPT !.at = "replaced"]
                           ELSE [work[g] EXCEPT !.fd =
                                    IF @ = "tmp" THEN "file"
                                    ELSE IF @ = "file" THEN "unlinked" ELSE @]]
    /\ UNCHANGED <<now, manager, sres, spc, clientVars>>

\* _save_all lines 135-138 after a write, and the finally clause of lines
\* 148-149 and 185-186 on every path: the cache takes the written map and
\* the modification time the file has now, and the lock file is removed.
RaceFinish(h) ==
    /\ work[h].at \in {"replaced", "ending"}
    /\ manager' = [manager EXCEPT ![h] =
           IF work[h].at = "replaced"
           THEN [@ EXCEPT !.cache = Some(work[h].tasks),
                          !.cache_serialized = Some(work[h].text),
                          !.cache_mtime = CurrentMtime(disk)]
           ELSE @]
    /\ disk' = ReleaseLock(disk)
    /\ work' = [work EXCEPT ![h] =
           [at |-> "idle", op |-> "none", id |-> "", tasks |-> <<>>,
            text |-> File("empty"), fd |-> "none", seen |-> Absent,
            err |-> "",
            done |-> IF work[h].err # "" THEN work[h].err ELSE work[h].op]]
    /\ UNCHANGED <<now, sres, spc, clientVars>>

NextRace ==
    \E h \in Handles :
        \/ RaceLoad(h)
        \/ RaceOpen(h)
        \/ RaceWrite(h)
        \/ RaceReplace(h)
        \/ RaceFinish(h)

SpecRace == InitRace /\ [][NextRace]_vars

\* C17: with a single writer, at every step of a save or delete, and when the
\* writer has crashed at any step, the backing file holds the complete text it
\* held when the call began or the complete serialization of the new map,
\* never part of a text; until the rename, and after a crash before the
\* rename, it holds the previous text.
C17_FileWholeAtEveryStep ==
    /\ disk.file # File("partial")
    /\ spc \in {"locked", "loaded", "tmp_open", "tmp_written"}
          => disk.file = work.before
    /\ spc = "replaced" => disk.file = work.text
    /\ spc = "crashed" =>
          /\ work.at \in {"locked", "loaded", "tmp_open", "tmp_written"}
                => disk.file = work.before
          /\ work.at = "replaced" => disk.file = work.text
\* The writer crashed with the temporary file half written, over a populated
\* store that the new map differs from.
C17_CrashedMidWrite ==
    /\ spc = "crashed" /\ work.at = "tmp_open"
    /\ disk.tmp = File("partial")
    /\ work.before # Absent /\ work.before.kind = "object"
    /\ Len(work.before.members) >= 2
    /\ work.text # work.before

\* C18: once delete of a stored identifier has completed, get of it fails with
\* the not-found error, list has no record with that identifier, the file
\* has no entry for it, and every other stored record is as it was.
C18_DeleteRemovesOnlyThat ==
    [][(Called({"delete"}) /\ sres'.err = "")
          => LET id == sres'.id
                 m == manager'[sres'.h]
                 all == ListTasks(disk', m, None)
             IN  /\ GetTask(disk', m, id).err = "KeyError"
                 /\ all.err = ""
                 /\ \A i \in DOMAIN all.recs : all.recs[i].id # id
                 /\ Len(all.recs) = Len(Stored) - 1
                 /\ Keys(Stored') = Keys(Stored) \ {id}
                 /\ \A k \in Keys(Stored') :
                       /\ Lookup(Stored', k) = Lookup(Stored, k)
                       /\ GetTask(disk', m, k).rec = Lookup(Stored, k)]_vars
\* A record was deleted from a store that holds others.
C18_DeletedOneOfSeveral ==
    /\ Returns("delete") /\ sres.wrote /\ sres.old # None
    /\ Len(Stored) >= 2

\* C19: create writes the backing file, as an empty object, only when the
\* file is absent; a file that exists keeps its content and modification
\* time, so a handle created on a populated store loses nothing.  The handle
\* returned has no cache.
C19_CreateKeepsExistingFile ==
    [][sres'.op = "create"
          => /\ disk.file = Absent => disk'.file = ObjectText(<<>>)
             /\ disk.file # Absent =>
                   disk'.file = disk.file /\ disk'.mtime = disk.mtime
             /\ manager'[sres'.h].cache = None
             /\ manager'[sres'.h].cache_mtime = None
             /\ manager'[sres'.h].cache_serialized = None]_vars
\* A handle was created on a store that earlier calls had populated.
C19_CreatedOnPopulatedStore ==
    /\ sres.op = "create" /\ ~sres.wrote
    /\ disk.file.kind = "object" /\ Len(disk.file.members) = 3

\* ------------------------------------------------------ job manager claims
\* The chat history of the record the backing file holds under an identifier.
HistoryOf(content, id) ==
    LET records == LoadRawData(content).value
    IN  IF (id \in Keys(records))
        THEN GetField(Lookup(records, id), "chat_history", <<>>)
        ELSE <<>>
\* The field of the payload a reply carries, Null when the reply has no
\* payload object or the payload has no such field.
Reported(reply, field) ==
    IF /\ reply.kind = "response"
       /\ reply.content # None /\ reply.content # Some(<<>>)
       /\ reply.content.some[1].text.json
       /\ reply.content.some[1].text.value.t = "obj"
       /\ field \in DOMAIN reply.content.some[1].text.value.m
    THEN reply.content.some[1].text.value.m[field]
    ELSE Null
\* A send_message call that made the remote call completed in this step.
Sent == Called({"send"}) /\ sres'.reply # None
\* This step put exactly one message, the user's, at the end of the history.
AppendedOne ==
    LET before == HistoryOf(disk.file, sres'.id)
        after == HistoryOf(disk'.file, sres'.id)
    IN  /\ Len(after) = Len(before) + 1
        /\ after[Len(after)].type = "user"
        /\ after[Len(after)].content = sres'.task.message
        /\ \A i \in DOMAIN before :
              /\ after[i].type = before[i].type
              /\ after[i].content = before[i].content
\* What the claim says of the replies that do not report success = true.
NonSuccessCases ==
    /\ Reported(sres'.reply.some, "success") = Bool(FALSE)
          => sres'.err = "" /\ ~sres'.ok
    /\ (\/ sres'.reply.some = RemoteRaises
        \/ Reported(sres'.reply.some, "success")
              \notin {Bool(TRUE), Bool(FALSE)})
          => sres'.err # ""
    /\ ~AppendedOne => disk' = disk

\* C20 as stated: send_message appends the user message to the stored task's
\* chat history exactly when the remote reply reports success = true.
C20_AppendsIffSuccessTrue ==
    [][Sent =>
          /\ AppendedOne <=> Reported(sres'.reply.some, "success") = Bool(TRUE)
          /\ NonSuccessCases]_vars

\* C20, amended: send_message appends the user message, as exactly one
\* message at the end of the stored history, and returns true exactly when
\* the reply reports success = true and carries no error field that is true
\* in Python's sense; success = false returns false, every other reply makes
\* it fail, and whenever nothing is appended the store is unchanged.
C20_AppendsIffSuccessWithoutError ==
    [][Sent =>
          /\ AppendedOne <=>
                /\ Reported(sres'.reply.some, "success") = Bool(TRUE)
                /\ Reported(sres'.reply.some, "error") \in {Null, Str("")}
          /\ AppendedOne <=> (sres'.err = "" /\ sres'.ok)
          /\ (/\ Reported(sres'.reply.some, "success") = Bool(TRUE)
              /\ Reported(sres'.reply.some, "error") \notin {Null, Str("")})
                => sres'.err = "RuntimeError"
          /\ NonSuccessCases]_vars
\* A second message was appended to a stored history.
C20_AppendedToHistory ==
    /\ sres.op = "send" /\ sres.ok
    /\ Len(HistoryOf(disk.file, sres.id)) = 2
    /\ HistoryOf(disk.file, sres.id)[2].content = "hello"

\* ------------------------------------------------------- job manager claims
\* A call of the job manager's get_task or create_task completed in this step.
Fetched == Called({"get_task", "create_task"})
\* The reply carries a payload object from which the models build a task: a
\* known status, a creation date, and history items that are objects with a
\* known role and some content.
ValidTaskPayload(reply) ==
    /\ reply # RemoteRaises
    /\ reply.content # None /\ reply.content # Some(<<>>)
    /\ reply.content.some[1].text.json
    /\ reply.content.some[1].text.value.t = "obj"
    /\ LET payload == reply.content.some[1].text.value.m
       IN  /\ "status" \in DOMAIN payload
           /\ payload["status"] \in
                 {"pending", "in_progress", "completed", "paused",
                  "waiting_approval"}
           /\ "created_at" \in DOMAIN payload
           /\ "chat_history" \in DOMAIN payload =>
                 \A i \in DOMAIN payload["chat_history"] :
                     /\ "scalar" \notin DOMAIN payload["chat_history"][i]
                     /\ payload["chat_history"][i].type
                           \in {"user", "jules", "system"}
\* The error field that makes the call fail although the payload is a task:
\* not_found for get_task, any non-empty one for create_task.
RefusedByError(op, reply) ==
    IF op = "get_task" THEN Reported(reply, "error") = Str("not_found")
    ELSE Reported(reply, "error") \notin {Null, Str("")}
\* The record the call returned is the payload's task and is what the store
\* now holds under its id.
PersistedReturnedTask ==
    LET payload == sres'.reply.some.content.some[1].text.value.m
        task == sres'.rec.some
    IN  /\ task.id = GetField(payload, "id", "None")
        /\ task.status = payload["status"]
        /\ Len(task.chat_history) = Len(GetField(payload, "chat_history", <<>>))
        /\ task.id \in Keys(Stored')
        /\ Lookup(Stored', task.id).status = task.status
        /\ Lookup(Stored', task.id).chat_history = task.chat_history
        /\ Lookup(Stored', task.id).created_at.iso = payload["created_at"].iso
        /\ \A k \in Keys(Stored) \ {task.id} :
              k \in Keys(Stored') /\ Lookup(Stored', k) = Lookup(Stored, k)
\* What both readings of C21 share: a failed call leaves the disk as it was,
\* a call succeeds only on a valid task payload and then persists it, a
\* raise of the remote call is a RuntimeError and a payload that is not JSON
\* a ValueError.
PersistsOnlyOnSuccess ==
    /\ sres'.err # "" => disk' = disk /\ sres'.rec = None
    /\ sres'.err = "" =>
          /\ sres'.reply # None /\ ValidTaskPayload(sres'.reply.some)
          /\ PersistedReturnedTask
    /\ sres'.reply = Some(RemoteRaises) => sres'.err = "RuntimeError"
    /\ (/\ sres'.reply # None /\ sres'.reply # Some(RemoteRaises)
        /\ sres'.reply.some.content # None
        /\ sres'.reply.some.content # Some(<<>>)
        /\ ~sres'.reply.some.content.some[1].text.json)
          => sres'.err = "ValueError"

Blank(s) == \A i \in DOMAIN s : s[i] \in {" ", "\t", "\n"}
\* The text has a character that is no letter, digit, '-' or '_'.
OutsideIdCharacters(s) ==
    \E i \in DOMAIN s :
        s[i] \notin
           {"a", "b", "c", "d", "e", "f", "g", "h", "i", "j", "k", "l", "m",
            "n", "o", "p", "q", "r", "s", "t", "u", "v", "w", "x", "y", "z",
            "A", "B", "C", "D", "E", "F", "G", "H", "I", "J", "K", "L", "M",
            "N", "O", "P", "Q", "R", "S", "T", "U", "V", "W", "X", "Y", "Z",
            "0", "1", "2", "3", "4", "5", "6", "7", "8", "9", "-", "_"}
\* The call that completed in this step was refused on its arguments alone,
\* the task identifier being rejected when bad(it) holds.
RefusedArguments(bad(_)) ==
    \/ /\ sres'.op \in {"get_task", "send"}
       /\ Blank(sres'.task.task_id) \/ bad(sres'.task.task_id)
    \/ sres'.op = "send" /\ Blank(sres'.task.raw)
    \/ /\ sres'.op = "create_task"
       /\ \/ Blank(sres'.task.description)
          \/ Blank(sres'.task.repository)
          \/ \A i \in DOMAIN sres'.task.repository :
                sres'.task.repository[i] # "/"
\* A job manager call completed in this step without a remote invocation and
\* without a change on disk.
NothingInvoked == sres'.calls = 0 /\ sres'.reply = None /\ disk' = disk
\* What the claim says of the calls bad(_) refuses, and of send_message for a
\* task the store does not hold.
PreconditionsFirst(bad(_)) ==
    Called({"get_task", "send", "create_task"}) =>
        /\ RefusedArguments(bad) => NothingInvoked /\ sres'.err = "ValueError"
        /\ (sres'.op = "send" /\ ~RefusedArguments(bad)
              /\ sres'.id \notin Keys(Stored))
              => NothingInvoked /\ sres'.err = "KeyError"

\* C22 as stated: get_task, send_message and create_task invoke no remote
\* tool and change nothing in the store when the task identifier is blank or
\* has a character outside letters, digits, '-' and '_', when the message or
\* description is blank, when the repository is blank or has no slash, or
\* (send_message) when the task is not in the local store, which is a
\* not-found error.
C22_AnyOutsideCharacterRefuses ==
    [][PreconditionsFirst(OutsideIdCharacters)]_vars

\* C22, amended: the same, the task identifier being judged once the
\* whitespace around it is removed: an identifier such as " t1 " is accepted
\* as "t1" and the remote tool is invoked.
C22_PreconditionsBeforeRemoteCall ==
    [][PreconditionsFirst(LAMBDA s : OutsideIdCharacters(Strip(s)))]_vars
\* send_message for a task the store does not hold, the store holding another.
C22_SentToMissingTask ==
    /\ sres.op = "send" /\ sres.err = "KeyError" /\ sres.calls = 0
    /\ sres.id = "t3" /\ sres.task.message = "hello"
    /\ "t1" \in Keys(Stored)

\* C23: each call of get_task, send_message or create_task invokes the remote
\* tool at most once, whatever that invocation gives: a call that was refused
\* before the remote call invokes it not at all, every other call exactly
\* once, also when the invocation raises or its reply is unusable.
C23_AtMostOneInvocation ==
    [][Called({"get_task", "send", "create_task"}) =>
          /\ sres'.calls <= 1
          /\ sres'.calls = 1 <=> sres'.reply # None]_vars
\* The one invocation of a get_task call raised, and the call failed.
C23_InvokedOnceAndFailed ==
    /\ sres.op = "get_task" /\ sres.calls = 1
    /\ sres.reply = Some(RemoteRaises) /\ sres.err = "RuntimeError"

\* C24: on a store that starts empty, after any sequence of get_task,
\* create_task and send_message calls, whatever the remote peer replies,
\* every record in the store has a status that is one of pending,
\* in_progress, completed, paused, waiting_approval.
C24_StoredStatusIsKnown ==
    \A k \in Keys(Stored) :
        /\ "status" \in DOMAIN Lookup(Stored, k)
        /\ Lookup(Stored, k).status \in
              {"pending", "in_progress", "completed", "paused",
               "waiting_approval"}
\* Two records are stored, one of them completed, and a message was sent.
C24_TwoRecordsAfterSend ==
    /\ sres.op = "send" /\ sres.ok
    /\ Keys(Stored) = {"None", "t1"}
    /\ Lookup(Stored, "t1").status = "completed"
    /\ Len(Lookup(Stored, "t1").chat_history) = 1

\* C25: a save of a record equal to the one the backing file already holds
\* under its identifier writes nothing to disk: the file's content and its
\* modification time are as they were, and no temporary file is made.  The
\* handle's cache is refreshed all the same, it holds the file's records, and
\* get and list through the handle give what they gave before this save.
C25_SaveOfStoredRecordWritesNothing ==
    [][(/\ Called({"save"})
        /\ disk.file.kind = "object"
        /\ sres'.id \in Keys(Stored)
        /\ Lookup(Stored, sres'.id) = sres'.task)
          => LET m == manager'[sres'.h]
             IN  /\ sres'.err = "" /\ ~sres'.wrote
                 /\ disk'.file = disk.file
                 /\ disk'.mtime = disk.mtime
                 /\ disk'.tmp = disk.tmp
                 /\ m.cache # None
                 /\ Keys(m.cache.some) = Keys(Stored)
                 /\ \A k \in Keys(Stored) :
                       Lookup(m.cache.some, k) = Lookup(Stored, k)
                 /\ GetTask(disk', m, sres'.id).rec = sres'.task
                 /\ ListTasks(disk', m, None).recs
                       = ListTasks(disk, manager[sres'.h], None).recs]_vars
\* The stored record was saved again, later than the file was last written,
\* among other records.
C25_SavedStoredRecordAgain ==
    /\ Returns("save") /\ ~sres.wrote
    /\ sres.old = sres.task
    /\ disk.mtime < now
    /\ Len(Stored) >= 2

\* C26: the lock never blocks and is always released.  A save or a delete
\* that begins while the lock file exists (left behind by a crashed writer,
\* say) runs to its end and does to the file and the handle, and returns,
\* exactly what it does when there is no lock file; and when a save or a
\* delete has returned, with or without an error, the lock file is absent.
C26_LockNeverBlocksAlwaysReleased ==
    [][Called({"save", "delete"}) =>
          LET free == [disk EXCEPT !.lock = FALSE]
              res == IF sres'.op = "save"
                     THEN SaveTask(free, manager[sres'.h], sres'.task, now)
                     ELSE DeleteTask(free, manager[sres'.h], sres'.id, now)
          IN  /\ ~disk'.lock
              /\ disk' = res.d
              /\ manager'[sres'.h] = res.m
              /\ sres'.err = res.err]_vars
\* A delete that found nothing and a save that wrote ran although the lock
\* file was there when they began, and left no lock file.
C26_RanUnderForeignLock ==
    /\ sres.op \in {"save", "delete"} /\ sres.locked /\ ~disk.lock
    /\ sres.err = "KeyError" \/ sres.wrote

\* The backing file holds text that is not JSON (blank text included), a JSON
\* value that is not an object, or an object with a member whose value is
\* not an object.
Corrupted(content) ==
    \/ content.kind \in {"empty", "garbage", "scalar"}
    \/ /\ content.kind = "object"
       /\ \E i \in DOMAIN content.members : "scalar" \in DOMAIN content.members[i].v
\* This step left the backing file a JSON object that holds exactly the
\* members of before that were objects, and task under its identifier.
RewrittenWith(before, task) ==
    /\ disk'.file.kind = "object"
    /\ \A i \in DOMAIN disk'.file.members :
          "scalar" \notin DOMAIN disk'.file.members[i].v
    /\ \A i, j \in DOMAIN disk'.file.members :
          disk'.file.members[i].k = disk'.file.members[j].k => i = j
    /\ Keys(disk'.file.members) = Keys(before) \cup {task.id}
    /\ Lookup(disk'.file.members, task.id) = task
    /\ \A k \in Keys(before) \ {task.id} :
          Lookup(disk'.file.members, k) = Lookup(before, k)
\* The objects among the members of the backing file.
ValidEntries ==
    IF disk.file.kind = "object"
    THEN SelectSeq(disk.file.members, LAMBDA e : "scalar" \notin DOMAIN e.v)
    ELSE <<>>

\* C27 as stated: when the backing file is corrupted, the first successful
\* save(r) rewrites it as a valid JSON object holding exactly the entries
\* that were valid objects plus r; the invalid content is gone from disk.
C27_FirstSaveRewritesCorruptedFile ==
    [][(Called({"save"}) /\ sres'.err = "" /\ Corrupted(disk.file))
          => RewrittenWith(ValidEntries, sres'.task)]_vars

\* C27, amended: when the backing file is corrupted, a successful save(r)
\* rewrites it as a valid JSON object holding exactly the entries that were
\* valid objects plus r, unless r equals the valid entry the file already
\* holds under r's identifier: that save writes nothing and the file keeps
\* its invalid entries, until a save or delete that changes the map.
C27_ChangingSaveRewritesCorruptedFile ==
    [][(Called({"save"}) /\ sres'.err = "" /\ Corrupted(disk.file))
          => IF /\ sres'.id \in Keys(ValidEntries)
                /\ Lookup(ValidEntries, sres'.id) = sres'.task
             THEN disk'.file = disk.file /\ ~sres'.wrote
             ELSE RewrittenWith(ValidEntries, sres'.task) /\ sres'.wrote]_vars
\* A save has returned and the backing file still holds its invalid entry:
\* the record saved is the one the file held.
C27_SavedAndStillCorrupted ==
    /\ Returns("save") /\ ~sres.wrote
    /\ Corrupted(disk.file)
    /\ Lookup(ValidEntries, sres.id) = sres.task

\* ------------------------------------------------------ more client claims
\* C28: invoke on a client that has no process handle (never started, or
\* stopped) fails with a runtime error saying the process is not running,
\* writes nothing to any stream and reads nothing, and leaves the process
\* handle unset.
C28_InvokeWithoutProcess ==
    [][\A c \in Clients :
          (pc[c] = "idle" /\ gen'[c] # gen[c] /\ process[c] = NoProcess)
              => /\ last'[c] = Done("invoke", "not_running",
                                    Raised("RuntimeError",
                                           "MCP client process is not running"))
                 /\ pc'[c] = "idle"
                 /\ pending'[c] = pending[c]
                 /\ os'[c] = os[c] /\ buf'[c] = buf[c]
                 /\ process'[c] = NoProcess
                 /\ alive'[c] = alive[c] /\ signals'[c] = signals[c]]_vars

C28_InvokedAfterStop ==
    \E c \in Clients :
        /\ launched[c] >= 1 /\ process[c] = NoProcess /\ pc[c] = "idle"
        /\ last[c] = Done("invoke", "not_running",
                          Raised("RuntimeError",
                                 "MCP client process is not running"))

\* C29: invoke fails with the missing-result error exactly when the response
\* object has no error field and no result field; a response that has a
\* result field and no error field always makes invoke return a mapping.
C29_MissingResultExactly ==
    \A c \in Clients :
        (pc[c] = "idle" /\ last[c].op = "invoke" /\ last[c].env = "json")
            => LET r == response[c]
                   out == last[c].out
               IN  /\ out = Raised("RuntimeError", MsgMissingResult)
                         <=> ("error" \notin DOMAIN r /\ "result" \notin DOMAIN r)
                   /\ ("result" \in DOMAIN r /\ "error" \notin DOMAIN r)
                         => out.kind = "return"

\* C30: response framing.  A line read by invoke is the first unread line of
\* the child's output and exactly that line is consumed: a blank line is
\* skipped and the call reads on, the first non-blank line ends the call as
\* its response.  End-of-stream before a non-blank line gives the
\* no-response runtime error, no data within the timeout (on a stream with
\* a descriptor) gives a timeout error, and a non-blank line that is not a
\* JSON object gives the invalid-format runtime error.
C30_ResponseFraming ==
    [][\A c \in Clients :
          LET unread == buf[c] \o os[c]
              unreadAfter == buf'[c] \o os'[c]
              reads == /\ pc[c] # "idle"
                       /\ \/ pc'[c] # pc[c]
                          \/ Len(unreadAfter) < Len(unread)
          IN  reads =>
                /\ (unread # <<>> /\ Head(unread).k = "blank") =>
                      /\ unreadAfter = Tail(unread)
                      /\ pc'[c] = "reading" /\ last'[c] = last[c]
                /\ (unread # <<>> /\ Head(unread).k # "blank") =>
                      /\ unreadAfter = Tail(unread)
                      /\ pc'[c] = "idle"
                      /\ IF Head(unread).k = "json" /\ Head(unread).v.t = "obj"
                         THEN response'[c] = Head(unread).v.m
                         ELSE last'[c].out =
                                 Raised("RuntimeError", MsgInvalidFormat)
                /\ (unread = <<>> /\ process[c] \notin alive[c]) =>
                      /\ pc'[c] = "idle"
                      /\ last'[c].out = Raised("RuntimeError", MsgNoResponse)
                /\ (unread = <<>> /\ process[c] \in alive[c]
                    /\ hasFd[c] /\ pc[c] = "reading") =>
                      /\ pc'[c] = "idle"
                      /\ last'[c].out = Raised("TimeoutError", "")
                      /\ unreadAfter = unread]_vars

\* C31: when the operating system refuses to launch the child, start fails
\* with a runtime error that wraps the cause and the client is left with no
\* process handle and no new child; the next start is not refused as already
\* running and the next stop is the no-op case.
C31_LaunchFailureLeavesNoHandle ==
    [][\A c \in Clients :
          /\ (Completed(c, "start") /\ last'[c].env = "launch_fails"
              /\ ~(process[c] # NoProcess /\ process[c] \in alive[c])) =>
                /\ last'[c].out = Raised("RuntimeError", MsgLaunchFailed)
                /\ process'[c] = NoProcess
                /\ launched'[c] = launched[c] /\ alive'[c] = alive[c]
                /\ signals'[c] = signals[c]
          /\ (last[c] = Done("start", "launch_fails",
                             Raised("RuntimeError", MsgLaunchFailed))
              /\ Completed(c, "start")) =>
                last'[c].out # Raised("RuntimeError", "MCP client already running")
          /\ (last[c] = Done("start", "launch_fails",
                             Raised("RuntimeError", MsgLaunchFailed))
              /\ Completed(c, "stop")) =>
                /\ last'[c].out = ReturnedBool(FALSE)
                /\ signals'[c] = signals[c] /\ process'[c] = NoProcess]_vars

C31_LaunchRefusedOnRestart ==
    \E c \in Clients :
        /\ last[c] = Done("start", "launch_fails",
                          Raised("RuntimeError", MsgLaunchFailed))
        /\ launched[c] >= 1 /\ process[c] = NoProcess

\* --------------------------------------------------- more storage claims
\* C32: cache isolation.  When the caller changes a record that get or list
\* returned, or the record it passed to save (a top-level field or one of
\* the nested chat-message and source-file lists), what a later get or list
\* on that handle returns does not change.
C32_CacheIsolation ==
    [][\A h \in Handles :
          (sres'.mutated # sres.mutated /\ sres'.mutated # "no" /\ sres.h = h) =>
              /\ \A task_id \in TaskIds :
                    GetTask(disk', manager'[h], task_id).rec
                        = GetTask(disk, manager[h], task_id).rec
              /\ ListTasks(disk', manager'[h], None).recs
                    = ListTasks(disk, manager[h], None).recs]_vars

\* C33: if entering a session fails because start fails (launch failure, or
\* the client's process was already running), no session is left recorded as
\* open: the active-session count is 0 afterwards and a later attempt to
\* enter a session on the same client, through any context object, is not
\* rejected as already active or already in use.
C33_FailedEnterLeavesNoSession ==
    \A c \in Clients :
        (pc[c] = "idle" /\ last[c].op = "enter" /\ last[c].env = "start_fails")
            => /\ active_contexts[c] = 0
               /\ \A x \in Ctxs : ~ctx[c][x].entered

\* C34 as stated: after any sequence of start, stop, invoke and session
\* enter/exit on one client, at most one child process launched by that
\* client is alive.
C34_AtMostOneChildAlive ==
    \A c \in Clients : Cardinality(alive[c]) <= 1

\* C34, amended: at most one child that the client has not tried to stop is
\* alive, and it is the one the handle refers to; every other live child of
\* the client is one a stop call sent the terminate signal to (the signal
\* failed, or the wait for the exit timed out).
C34_OnlyStoppedChildrenOutliveHandle ==
    \A c \in Clients :
        \A p \in alive[c] :
            p = process[c] \/ "terminate" \in {signals[c][p][i] : i \in DOMAIN signals[c][p]}

C34_TwoChildrenAlive ==
    \E c \in Clients :
        /\ Cardinality(alive[c]) = 2 /\ process[c] \in alive[c]
        /\ \E p \in alive[c] \ {process[c]} : signals[c][p] = <<"terminate">>

\* C35: no lost update between sequential operations of two handles.  When
\* the file holds a record that the last call, a completed save through one
\* handle, put there, a save or delete through the other handle that does
\* not overlap it leaves the record in the file (unless it is the delete of
\* that record), also when both writes fall in one modification-time tick.
C35_NoLostUpdate ==
    [][(/\ sres.op = "save" /\ sres.err = ""
        /\ sres.id \in Keys(Stored) /\ Lookup(Stored, sres.id) = sres.task
        /\ sres'.h # sres.h /\ sres'.op \in {"save", "delete"}
        /\ ~(sres'.op = "delete" /\ sres'.id = sres.id))
          => /\ sres.id \in Keys(Stored')
             /\ sres'.id # sres.id => Lookup(Stored', sres.id) = sres.task]_vars

\* C36: cache coherence under interleaving.  With the steps of the save and
\* delete calls of two handles interleaved and every write giving the file
\* a fresh modification time, whenever a handle is idle and its recorded
\* cache modification time equals the file's current modification time, its
\* cached map equals the parsed content of the file.
C36_CacheCoherent ==
    \A h \in Handles :
        (/\ work[h].at = "idle"
         /\ manager[h].cache # None
         /\ manager[h].cache_mtime = CurrentMtime(disk))
            => SortByKey(manager[h].cache.some)
                  = SortByKey(LoadRawData(disk.file).value)

\* C37: when two handles on the same file each run save for a different
\* identifier and their steps interleave, both records are present in the
\* backing file once both saves have completed.
C37_BothRecordsPresent ==
    (\A h \in Handles : work[h].at = "idle" /\ work[h].done = "save")
        => {"t1", "t2"} \subseteq Keys(LoadRawData(disk.file).value)

\* C38: when two handles write to the same path with interleaved steps, a
\* reader of the backing file observes at every moment a complete serialized
\* map written by one of them, never an empty or partially written file.
C38_FileAlwaysComplete ==
    /\ disk.file.kind = "object"
    /\ Keys(disk.file.members) \subseteq {"t1", "t2"}

\* C39: after the job manager's get_task(id) returns, the store holds a
\* record under the requested id, and that record is the task get_task
\* returned, whatever identifier the remote payload carries.
C39_StoredUnderRequestedId ==
    (sres.op = "get_task" /\ sres.err = "")
        => /\ sres.id \in Keys(LoadRawData(disk.file).value)
           /\ Lookup(LoadRawData(disk.file).value, sres.id).id
                 = sres.rec.some.id

\* C40: list is deterministic in the store content: what a handle's list
\* returns, from its cache or from disk, is the sequence a newly created
\* handle on the same file returns for the same filter, the order of
\* records with equal created_at included, whatever the order of the saves.
C40_ListAsFreshHandleLists ==
    (sres.op = "list" /\ sres.err = "")
        => sres.recs
              = SortByCreatedAt(SelectSeq(
                    [i \in DOMAIN LoadRawData(disk.file).value |->
                        LoadRawData(disk.file).value[i].v],
                    LAMBDA task :
                        \/ sres.filter = None
                        \/ /\ "status" \in DOMAIN task
                           /\ task.status = sres.filter.some))

====
